---- MODULE Spec2Model ----
(***************************************************************************)
(* A state-machine model of GlycanDIAFinder.py: the MS2 fragment           *)
(* aggregation (extract_info_ms2), the close-peak filter                   *)
(* (check_peaks_distance), the MS1 search and charge selection (search_ms1 *)
(* and the head of align_peaks_matchms_batch) and the MS1/MS2 peak         *)
(* alignment with its report rows (find_aligned_peaks and the tail of      *)
(* align_peaks_matchms_batch).                                             *)
(*                                                                         *)
(* Numbers.  Masses of the MS2 part are integers in milli-Dalton, masses   *)
(* of the MS1 part are integers in 1e-5 Dalton, retention times are        *)
(* integers in 1/100 minute, intensities are integers.  A mass m/z is kept *)
(* as the numerator m together with the charge z wherever the code         *)
(* divides by z, so that no rounding enters a comparison.                  *)
(*                                                                         *)
(* Each component has its own specification (SpecMS2, SpecPeaks, SpecMS1,  *)
(* SpecAlign, SpecPrec for find_nearest_precursor_mz and the bucket it     *)
(* hands to extract_info_ms2, SpecDriver for the loops of __main__,        *)
(* SpecArgs for Arguments.__init__ and the masses); the variables of the   *)
(* other components stay at their idle values.                             *)
(***************************************************************************)
EXTENDS Integers, Sequences, FiniteSets, TLC

VARIABLES
    \* extract_info_ms2
    spectrums_ms2_list,     \* the MS2 spectra of the file
    spec_ms2_idx_list,      \* indices of the spectra of the selected bucket
    df_cnt_min,             \* args.min_matched_cnt_ms2
    ppm_ms2,                \* args.ppm_ms2 (ms2_mass_error_ppm of the configuration)
    spec_ms2_pos,           \* position of the for loop in spec_ms2_idx_list
    df_intensity_dict,      \* df : list of intensity
    df_rt_dict,             \* df : list of rt
    df_scan_num_dict,       \* df : list of scan_num
    ms2_pc,                 \* "idle", "loop", "returned", "assert_failed"
    \* search_ms1 and the charge selection of align_peaks_matchms_batch
    spectrums_ms1_list,     \* the MS1 spectra of the file
    flex_mode,              \* args.flex_mode
    min_mass,               \* args.min_mass (1e-5 Da)
    max_mass,               \* args.max_mass (1e-5 Da), or InfMass
    charge_list,            \* 1..args.charge, or args.charge_range
    charge_pos,             \* position of "for z in charge_list"
    df_list_dict,           \* z : df_list (the numerators z*df1, z*df2, z*df3)
    rt_list_dict,           \* z : rt_list
    scan_num_list_dict,     \* z : scan_num_list
    df1_intensity_list_dict,\* z : df1_intensity_list
    df2_intensity_list_dict,\* z : df2_intensity_list
    df3_intensity_list_dict,\* z : df3_intensity_list
    max_intensity,          \* the greatest max(df1_intensity_list) so far
    z_fin,                  \* the selected charge, 0 while none
    ms1_pc,                 \* "idle", "charges", "selected", "exit", "value_error"
    \* find_filter_peaks and check_peaks_distance
    pk_rt_list,             \* rt_list, in 1/100 minute
    intensity_filt_arr,     \* the output of gaussian_filter
    pk_min_height,          \* min_height
    pk_threshold,           \* threshold, in 1/1000
    pk_delta,               \* delta, in 1/100 minute
    peak_idx_list2,         \* the peaks that pass the baseline filter
    peak_baseline_list,     \* max_baseline of each of them
    peak_idx_list3,         \* the peaks check_peaks_distance returns
    peaks_pc,               \* "idle", "called", "returned"
    \* find_aligned_peaks and the rows of Glycan_isomers.csv
    df_peak_idx_ms1_list,       \* the MS1 peaks of df1
    df_peak_scan_num_ms1_list,  \* their scan numbers
    df_peak_idx_ms2_dict,       \* df : list of peak indices in MS2
    df_peak_scan_num_ms2_dict,  \* df : list of the peaks' scan numbers
    df_peak_intensity_dict,     \* df : list of the peaks' intensities
    n_df_ms2,                   \* len(df_ms2_list) of the compound
    max_aligned_record_ms2,     \* args.max_aligned_record_ms2, or InfCap
    ms1_peak_pos,               \* position of "for i in range(len(...ms1_list))"
    aligned_peak_ms1_2_dict,    \* peak_idx in MS1 : aligned peak_idx in MS2
    aligned_peak_tot_intenisty_ms2_dict, \* peak_idx in MS1 : capped intensity sum
    isomers_rows,               \* the rows written to Glycan_isomers.csv
    align_pc,                   \* "idle", "loop", "reported"
    \* find_nearest_precursor_mz and the call of extract_info_ms2
    precMZ_keys,            \* precMZ_spectID_dict.keys(), in insertion order
    precMZ_spectID_dict,    \* precursor_mz : list of spectrum idx
    prec_z,                 \* the selected charge z_fin
    prec_df_num,            \* z_fin * df1 of the selected charge
    prec_pos,               \* position of "for prec_mz in precMZ_spectID_dict.keys()"
    delta_min,              \* z_fin * delta_min, or InfMass
    prec_mz_nearest,        \* the nearest key so far, or NonePrecMz
    precursor_mz_list,      \* the list find_nearest_precursor_mz returns
    prec_pc,                \* "idle", "loop", "returned", "assert_failed", "extracting"
    \* the driver (__main__)
    dataset_list,           \* per dataset: its precMZ_spectID_dict has a key
    cpdAddon_note_list,     \* per compound: its note, and whether some charge is
                            \* inside the mass range
    dataset_pos,            \* position of the loop over the datasets
    cpd_pos,                \* position of "for cpd_addon, note in cpdAddon_note_list"
    isomers_row_list,       \* the rows read back for the current dataset
    compound_files,         \* <<dataset, compound>> with a Glycan_isomers.csv written
    dataset_rollups,        \* datasets whose three roll-up files are written
    subtype_files,          \* per written dataset: the rows of its Glycan_subtype.csv
    subtype_root_head,      \* the header of Glycan_subtype_combined.csv
    subtype_root_row_dict,  \* note -> the values of its combined row
    combined_written,       \* the two combined files are written
    driver_pc,              \* "idle", "compounds", "combined", "done", or the
                            \* exception that ended the process
    \* Arguments.__init__ and the masses search_ms1 computes from it
    arg_polarity,           \* polarity
    arg_adduct,             \* adduct
    arg_cpd_list,           \* args.cpd, split and padded to five counts
    arg_addon_mass,         \* float(args.addon_mass), in 1e-5 Da
    arg_z,                  \* the charge z given to search_ms1
    arg_df_list,            \* df_list as numerators (z*df1, z*df2, z*df3)
    args_pc,                \* "idle", "init", "constructed", "computed",
                            \* "AssertionError", "KeyError"
    \* the compound key, from the compound list to search_ms1
    key_cpd,                \* row[0] of the compound list, as characters
    key_addon_mass,         \* row[2] of the compound list, as characters
    cpd_addon,              \* cpd + "-" + addon_mass
    split_cpd,              \* cpd_addon.split("-")[0]
    split_addon_mass,       \* cpd_addon.split("-")[1]
    addon_mass_value,       \* float(args.addon_mass), in 1e-5 Da
    key_pc                  \* "idle", "row", "built", "split", "parsed", "ValueError"

ms2vars == <<spectrums_ms2_list, spec_ms2_idx_list, df_cnt_min, ppm_ms2, spec_ms2_pos,
             df_intensity_dict, df_rt_dict, df_scan_num_dict, ms2_pc>>

ms1vars == <<spectrums_ms1_list, flex_mode, min_mass, max_mass, charge_list, charge_pos,
             df_list_dict, rt_list_dict, scan_num_list_dict, df1_intensity_list_dict,
             df2_intensity_list_dict, df3_intensity_list_dict, max_intensity, z_fin,
             ms1_pc>>

peakvars == <<pk_rt_list, intensity_filt_arr, pk_min_height, pk_threshold, pk_delta,
              peak_idx_list2, peak_baseline_list, peak_idx_list3, peaks_pc>>

alignvars == <<df_peak_idx_ms1_list, df_peak_scan_num_ms1_list, df_peak_idx_ms2_dict,
               df_peak_scan_num_ms2_dict, df_peak_intensity_dict, n_df_ms2,
               max_aligned_record_ms2, ms1_peak_pos, aligned_peak_ms1_2_dict,
               aligned_peak_tot_intenisty_ms2_dict, isomers_rows, align_pc>>

precvars == <<precMZ_keys, precMZ_spectID_dict, prec_z, prec_df_num, prec_pos, delta_min,
              prec_mz_nearest, precursor_mz_list, prec_pc>>

drivervars == <<dataset_list, cpdAddon_note_list, dataset_pos, cpd_pos, isomers_row_list,
                compound_files, dataset_rollups, subtype_files, subtype_root_head,
                subtype_root_row_dict, combined_written, driver_pc>>

argvars == <<arg_polarity, arg_adduct, arg_cpd_list, arg_addon_mass, arg_z, arg_df_list,
             args_pc>>

keyvars == <<key_cpd, key_addon_mass, cpd_addon, split_cpd, split_addon_mass,
             addon_mass_value, key_pc>>

vars == <<ms2vars, ms1vars, peakvars, alignvars, precvars, drivervars, argvars, keyvars>>

\* What an action of one component leaves alone: the other components.
notMS2 == <<ms1vars, peakvars, alignvars, precvars, drivervars, argvars, keyvars>>
notMS1 == <<ms2vars, peakvars, alignvars, precvars, drivervars, argvars, keyvars>>
notPeaks == <<ms2vars, ms1vars, alignvars, precvars, drivervars, argvars, keyvars>>
notAlign == <<ms2vars, ms1vars, peakvars, precvars, drivervars, argvars, keyvars>>
notPrec == <<ms1vars, peakvars, alignvars, drivervars, argvars, keyvars>>
notDriver == <<ms2vars, ms1vars, peakvars, alignvars, precvars, argvars, keyvars>>
notArgs == <<ms2vars, ms1vars, peakvars, alignvars, precvars, drivervars, keyvars>>
notKey == <<ms2vars, ms1vars, peakvars, alignvars, precvars, drivervars, argvars>>

----------------------------------------------------------------------------
(* Helpers shared by the components *)

Abs(x) == IF x < 0 THEN -x ELSE x

Range(s) == {s[i] : i \in DOMAIN s}

MinOf(S) == CHOOSE x \in S : \A y \in S : x <= y

MaxOf(S) == CHOOSE x \in S : \A y \in S : x >= y

\* The empty dict (a defaultdict(list) with no key yet).
EmptyDict == [k \in {} |-> <<>>]

\* The insertion at the head of the list instead of its end.
DictPrepend(d, k, v) ==
    IF k \in DOMAIN d
    THEN [d EXCEPT ![k] = <<v>> \o @]
    ELSE [x \in DOMAIN d \cup {k} |-> IF x = k THEN <<v>> ELSE d[x]]

\* d[k].append(v) on a defaultdict(list).
DictAppend(d, k, v) ==
    IF k \in DOMAIN d
    THEN [d EXCEPT ![k] = Append(@, v)]
    ELSE [x \in DOMAIN d \cup {k} |-> IF x = k THEN <<v>> ELSE d[x]]

\* np.where(abs(df - mz_array) <= delta)[0]: the indices of the peaks in tolerance.
MatchIdxArr(mz_array, df, delta) ==
    {i \in DOMAIN mz_array : Abs(df - mz_array[i]) <= delta}

\* ppm * m / 1e6 compared with an integer difference: d <= ppm*m/1e6 iff
\* d <= floor(ppm*m/1e6).
PpmDelta(ppm, m) == (ppm * m) \div 1000000

----------------------------------------------------------------------------
(* extract_info_ms2 *)

\* Bounds of the MS2 inputs.
MaxMs2Spectra == 2
MaxDfCntMin == 4

\* args.ms2_mass_list of the compound, in milli-Dalton.
df_ms2_list == <<204087, 366140, 528192>>

\* The ppm the pipeline uses for the MS2 tolerances (the literal 10).
Ms2PpmLiteral == 10

\* The values of ms2_mass_error_ppm a configuration of the model may hold.
Ms2PpmInputs == {2, 10}

\* delta_mz_ms2_list = [10 * df / 1e6 for df in df_ms2_list]
delta_mz_ms2_list == [i \in DOMAIN df_ms2_list |-> PpmDelta(Ms2PpmLiteral, df_ms2_list[i])]

\* The peaks an MS2 spectrum of the model may hold, sorted by mz: one in the
\* tolerance of each target, a second one in the tolerance of the first target.
Ms2CandidatePeaks ==
    << [mz |-> 204086, intensity |-> 40],
       [mz |-> 204088, intensity |-> 70],
       [mz |-> 366141, intensity |-> 50],
       [mz |-> 528190, intensity |-> 60] >>

RECURSIVE SubSeqOf(_, _, _)
\* The subsequence of s at the indices of the set keep, from index i on.
SubSeqOf(s, keep, i) ==
    IF i > Len(s) THEN <<>>
    ELSE IF i \in keep THEN <<s[i]>> \o SubSeqOf(s, keep, i + 1)
    ELSE SubSeqOf(s, keep, i + 1)

\* Spectrum number k (1-based) of the file holding the candidate peaks `keep`:
\* scan numbers and retention times rise with k, intensities differ per spectrum.
Ms2Spectrum(k, keep) ==
    LET ps == SubSeqOf(Ms2CandidatePeaks, keep, 1) IN
    [ retention_time |-> 10 * k,
      scan_number    |-> 1000 + 7 * k,
      mz             |-> [i \in DOMAIN ps |-> ps[i].mz],
      intensities    |-> [i \in DOMAIN ps |-> ps[i].intensity + k] ]

Ms2SpectrumLists ==
    UNION { [1..n -> SUBSET (DOMAIN Ms2CandidatePeaks)] : n \in 0..MaxMs2Spectra }

\* The keys of df_idx_dict: every target mass gets a key.
DfIdxKeys == Range(df_ms2_list)

\* df_idx_dict after the inner loop over df_ms2_list: the index of the matching
\* peak, or -100 for a target that is not found.
DfIdxDict(spectrum) ==
    [df \in DfIdxKeys |->
        LET i == MaxOf({j \in DOMAIN df_ms2_list : df_ms2_list[j] = df})
            df_idx_arr == MatchIdxArr(spectrum.mz, df, delta_mz_ms2_list[i])
        IN IF df_idx_arr # {} THEN MinOf(df_idx_arr) ELSE -100]

\* The loop without the assertion.
DfAssertSkipped(spectrum) == TRUE

\* assert(len(df_idx_arr) == 1) holds for every target that is found.
DfAssertHolds(spectrum) ==
    \A i \in DOMAIN df_ms2_list :
        Cardinality(MatchIdxArr(spectrum.mz, df_ms2_list[i], delta_mz_ms2_list[i])) <= 1

\* len(df_idx_dict) < df_cnt_min: the spectrum is skipped.
SpectrumSkipped(spectrum, cnt_min) ==
    Cardinality(DOMAIN DfIdxDict(spectrum)) < cnt_min

\* What one found target contributes to the dict named field.
EntryOf(spectrum, df_idx, field) ==
    IF field = "intensity" THEN spectrum.intensities[df_idx]
    ELSE IF field = "rt" THEN spectrum.retention_time
    ELSE spectrum.scan_number

\* Position i of df_ms2_list is the first one holding its mass: the keys of
\* df_idx_dict are met once each, in insertion order.
FirstOccurrence(i) == \A j \in 1..(i - 1) : df_ms2_list[j] # df_ms2_list[i]

RECURSIVE RecordFound(_, _, _, _, _)
\* The loop "for df in df_idx_dict.keys()" from position i of the target list:
\* appends the entry of the spectrum to the list of every target that was found
\* (df_idx >= 0) and nothing to the others.
RecordFound(d, spectrum, i, idx, field) ==
    IF i > Len(df_ms2_list) THEN d
    ELSE LET df == df_ms2_list[i] IN
         IF FirstOccurrence(i) /\ idx[df] >= 0
         THEN RecordFound(DictAppend(d, df, EntryOf(spectrum, idx[df], field)),
                          spectrum, i + 1, idx, field)
         ELSE RecordFound(d, spectrum, i + 1, idx, field)

IdleMS2 ==
    /\ spectrums_ms2_list = <<>>
    /\ spec_ms2_idx_list = <<>>
    /\ df_cnt_min = 0
    /\ ppm_ms2 = Ms2PpmLiteral
    /\ spec_ms2_pos = 0
    /\ df_intensity_dict = EmptyDict
    /\ df_rt_dict = EmptyDict
    /\ df_scan_num_dict = EmptyDict
    /\ ms2_pc = "idle"

\* The call extract_info_ms2(df_ms2_list, delta_mz_ms2_list, spec_ms2_idx_list,
\* spectrums_ms2_list, df_cnt_min) with the three dicts empty.
InitMS2 ==
    /\ \E shapes \in Ms2SpectrumLists :
          /\ spectrums_ms2_list = [k \in DOMAIN shapes |-> Ms2Spectrum(k, shapes[k])]
          /\ spec_ms2_idx_list = [k \in DOMAIN shapes |-> k]
    /\ df_cnt_min \in 1..MaxDfCntMin
    /\ ppm_ms2 \in Ms2PpmInputs
    /\ spec_ms2_pos = 1
    /\ df_intensity_dict = EmptyDict
    /\ df_rt_dict = EmptyDict
    /\ df_scan_num_dict = EmptyDict
    /\ ms2_pc = "loop"

\* One iteration of "for spec_ms2_idx in spec_ms2_idx_list".
ExtractSpectrum ==
    /\ ms2_pc = "loop"
    /\ spec_ms2_pos <= Len(spec_ms2_idx_list)
    /\ LET spectrum == spectrums_ms2_list[spec_ms2_idx_list[spec_ms2_pos]]
           idx == DfIdxDict(spectrum)
       IN IF ~DfAssertHolds(spectrum)
          THEN /\ ms2_pc' = "assert_failed"
               /\ UNCHANGED <<spec_ms2_pos, df_intensity_dict, df_rt_dict, df_scan_num_dict>>
          ELSE /\ ms2_pc' = "loop"
               /\ spec_ms2_pos' = spec_ms2_pos + 1
               /\ IF SpectrumSkipped(spectrum, df_cnt_min)
                  THEN UNCHANGED <<df_intensity_dict, df_rt_dict, df_scan_num_dict>>
                  ELSE /\ df_intensity_dict' =
                             RecordFound(df_intensity_dict, spectrum, 1, idx, "intensity")
                       /\ df_rt_dict' = RecordFound(df_rt_dict, spectrum, 1, idx, "rt")
                       /\ df_scan_num_dict' =
                             RecordFound(df_scan_num_dict, spectrum, 1, idx, "scan_num")
    /\ UNCHANGED <<spectrums_ms2_list, spec_ms2_idx_list, df_cnt_min, ppm_ms2>>
    /\ UNCHANGED notMS2

\* return df_intensity_dict, df_rt_dict, df_scan_num_dict
ExtractReturn ==
    /\ ms2_pc = "loop"
    /\ spec_ms2_pos > Len(spec_ms2_idx_list)
    /\ ms2_pc' = "returned"
    /\ UNCHANGED <<spectrums_ms2_list, spec_ms2_idx_list, df_cnt_min, ppm_ms2, spec_ms2_pos,
                   df_intensity_dict, df_rt_dict, df_scan_num_dict>>
    /\ UNCHANGED notMS2

NextMS2 == ExtractSpectrum \/ ExtractReturn

----------------------------------------------------------------------------
(* search_ms1 *)

\* Bound of the MS1 inputs.
MaxMs1Spectra == 2

\* const_list, the water mass, the isotope offsets and adduct_tab, in 1e-5 Da.
const_list == <<16205282, 20307937, 14605791, 29109542, 30709033>>
WaterMass == 1801056
IsoOffset2 == 100340
IsoOffset3 == 200600
adduct_tab == [a \in {"H", "Na", "K", "NH4"} |->
                 IF a = "H" THEN 100728 ELSE IF a = "Na" THEN 2298922
                 ELSE IF a = "K" THEN 3896316 ELSE 1803383]

\* The configuration of the MS1 search: args.cpd "1" padded to five counts,
\* args.addon_mass, args.polarity, args.adduct, args.ppm_ms1.
cpd_list == <<1, 0, 0, 0, 0>>
addon_mass == 0
args_polarity == "positive"
args_adduct == "H"
ppm_ms1 == 10

RECURSIVE DotProduct(_, _, _)
\* sum(np.multiply(cpd_list, const_list)) from position i on.
DotProduct(a, b, i) ==
    IF i > Len(a) THEN 0 ELSE a[i] * b[i] + DotProduct(a, b, i + 1)

\* The numerators with the isotope offset multiplied by z.
DfNumIsoPerCharge(cpd, addon, polarity, adduct_mass, z, k) ==
    LET iso == IF k = 1 THEN 0 ELSE IF k = 2 THEN IsoOffset2 ELSE IsoOffset3 IN
    IF polarity = "positive"
    THEN DotProduct(cpd, const_list, 1) + WaterMass + adduct_mass * z + iso * z + addon
    ELSE DotProduct(cpd, const_list, 1) + WaterMass - adduct_mass * z + iso * z + addon

\* The numerator of df1, df2, df3 (k = 1, 2, 3): df_k = DfNum(...) / z.
DfNum(cpd, addon, polarity, adduct_mass, z, k) ==
    LET iso == IF k = 1 THEN 0 ELSE IF k = 2 THEN IsoOffset2 ELSE IsoOffset3 IN
    IF polarity = "positive"
    THEN DotProduct(cpd, const_list, 1) + WaterMass + adduct_mass * z + iso + addon
    ELSE DotProduct(cpd, const_list, 1) + WaterMass - adduct_mass * z + iso + addon

\* df_list of charge z under the configuration, as numerators.
DfList(z) ==
    [k \in 1..3 |-> DfNum(cpd_list, addon_mass, args_polarity, adduct_tab[args_adduct], z, k)]

\* np.where(abs(df - mz_array) <= ppm_ms1 * df / 1e6)[0] with df = num / z: both
\* sides multiplied by z.
Ms1MatchIdxArr(mz_array, num, z) ==
    {i \in DOMAIN mz_array : Abs(num - z * mz_array[i]) <= PpmDelta(ppm_ms1, num)}

\* The intensity of the last peak in tolerance.
LastIntensity(spectrum, idx_arr) == spectrum.intensities[MaxOf(idx_arr)]

\* The intensity of the first peak in tolerance (df_idx_arr[0]).
FirstIntensity(spectrum, idx_arr) == spectrum.intensities[MinOf(idx_arr)]

\* The five lists search_ms1 fills, empty.
EmptyTrace ==
    [ rt_list |-> <<>>, scan_num_list |-> <<>>, df1_intensity_list |-> <<>>,
      df2_intensity_list |-> <<>>, df3_intensity_list |-> <<>> ]

\* The flex body recording rt and scan number only for a spectrum with df1.
FlexBodySkipsUnmatched(t, spectrum, dfs, z) ==
    LET df1_idx_arr == Ms1MatchIdxArr(spectrum.mz, dfs[1], z) IN
    IF df1_idx_arr # {}
    THEN [t EXCEPT !.rt_list = Append(@, spectrum.retention_time),
                   !.scan_num_list = Append(@, spectrum.scan_number),
                   !.df1_intensity_list = Append(@, FirstIntensity(spectrum, df1_idx_arr))]
    ELSE [t EXCEPT !.df1_intensity_list = Append(@, 1)]

\* The flex body treating a spectrum as matched only if df1, df2 and df3 are all
\* matched in it.
FlexBodyNeedsIsotopes(t, spectrum, dfs, z) ==
    LET df1_idx_arr == Ms1MatchIdxArr(spectrum.mz, dfs[1], z)
        df2_idx_arr == Ms1MatchIdxArr(spectrum.mz, dfs[2], z)
        df3_idx_arr == Ms1MatchIdxArr(spectrum.mz, dfs[3], z)
    IN
    IF df1_idx_arr # {} /\ df2_idx_arr # {} /\ df3_idx_arr # {}
    THEN [t EXCEPT !.rt_list = Append(@, spectrum.retention_time),
                   !.scan_num_list = Append(@, spectrum.scan_number),
                   !.df1_intensity_list = Append(@, FirstIntensity(spectrum, df1_idx_arr))]
    ELSE [t EXCEPT !.rt_list = Append(@, spectrum.retention_time),
                   !.scan_num_list = Append(@, spectrum.scan_number),
                   !.df1_intensity_list = Append(@, 1)]

\* The body of "for spec_ms1_idx, spectrum_ms1 in enumerate(spectrums_ms1_list)"
\* in flex mode: what one spectrum appends to the lists t.
FlexBody(t, spectrum, dfs, z) ==
    LET df1_idx_arr == Ms1MatchIdxArr(spectrum.mz, dfs[1], z) IN
    IF df1_idx_arr # {}
    THEN [t EXCEPT !.rt_list = Append(@, spectrum.retention_time),
                   !.scan_num_list = Append(@, spectrum.scan_number),
                   !.df1_intensity_list = Append(@, FirstIntensity(spectrum, df1_idx_arr))]
    ELSE [t EXCEPT !.rt_list = Append(@, spectrum.retention_time),
                   !.scan_num_list = Append(@, spectrum.scan_number),
                   !.df1_intensity_list = Append(@, 1)]

\* The strict body recording each target on its own: the matched intensity if
\* that target is matched, the sentinel if not.
StrictBodyPerTarget(t, spectrum, dfs, z) ==
    LET Entry(k) == LET arr == Ms1MatchIdxArr(spectrum.mz, dfs[k], z) IN
                    IF arr # {} THEN FirstIntensity(spectrum, arr) ELSE 1
    IN [t EXCEPT !.rt_list = Append(@, spectrum.retention_time),
                 !.scan_num_list = Append(@, spectrum.scan_number),
                 !.df1_intensity_list = Append(@, Entry(1)),
                 !.df2_intensity_list = Append(@, Entry(2)),
                 !.df3_intensity_list = Append(@, Entry(3))]

\* The same body in strict mode.
StrictBody(t, spectrum, dfs, z) ==
    LET df1_idx_arr == Ms1MatchIdxArr(spectrum.mz, dfs[1], z)
        df2_idx_arr == Ms1MatchIdxArr(spectrum.mz, dfs[2], z)
        df3_idx_arr == Ms1MatchIdxArr(spectrum.mz, dfs[3], z)
    IN
    IF df1_idx_arr # {} /\ df2_idx_arr # {} /\ df3_idx_arr # {}
    THEN [t EXCEPT !.rt_list = Append(@, spectrum.retention_time),
                   !.scan_num_list = Append(@, spectrum.scan_number),
                   !.df1_intensity_list = Append(@, FirstIntensity(spectrum, df1_idx_arr)),
                   !.df2_intensity_list = Append(@, FirstIntensity(spectrum, df2_idx_arr)),
                   !.df3_intensity_list = Append(@, FirstIntensity(spectrum, df3_idx_arr))]
    ELSE [t EXCEPT !.rt_list = Append(@, spectrum.retention_time),
                   !.scan_num_list = Append(@, spectrum.scan_number),
                   !.df1_intensity_list = Append(@, 1),
                   !.df2_intensity_list = Append(@, 1),
                   !.df3_intensity_list = Append(@, 1)]

RECURSIVE SearchLoop(_, _, _, _, _, _)
\* The loop over the spectra from position i on.
SearchLoop(t, spectra, i, dfs, z, flex) ==
    IF i > Len(spectra) THEN t
    ELSE SearchLoop(IF flex = "true" THEN FlexBody(t, spectra[i], dfs, z)
                    ELSE StrictBody(t, spectra[i], dfs, z),
                    spectra, i + 1, dfs, z, flex)

\* search_ms1(args, spectrums_ms1_list, z, cpd_list, adduct_mass): df_list and the
\* five lists.
search_ms1(spectra, z, flex) ==
    [ df_list |-> DfList(z), trace |-> SearchLoop(EmptyTrace, spectra, 1, DfList(z), z, flex) ]

----------------------------------------------------------------------------
(* The charge selection of align_peaks_matchms_batch *)

\* d[k] = v on a dict.
DictPut(d, k, v) == [x \in DOMAIN d \cup {k} |-> IF x = k THEN v ELSE d[x]]

\* A peak of the model in the tolerance of target k of charge z, off units of
\* 1e-5 Da above the rounded target.
Ms1Peak(z, k, off, intensity) ==
    [mz |-> (DfList(z)[k] \div z) + off, intensity |-> intensity]

\* The peaks an MS1 spectrum of the model may hold, sorted by mz: the three
\* targets of charge 3, of charge 2 (df1 twice, df2 twice) and of charge 1.
Ms1CandidatePeaks ==
    << Ms1Peak(3, 1, 0, 800), Ms1Peak(3, 2, 0, 300), Ms1Peak(3, 3, 0, 200),
       Ms1Peak(2, 1, 0, 500), Ms1Peak(2, 1, 1, 350), Ms1Peak(2, 2, 0, 250),
       Ms1Peak(2, 2, 1, 260), Ms1Peak(2, 3, 0, 120),
       Ms1Peak(1, 1, 0, 500), Ms1Peak(1, 2, 0, 240), Ms1Peak(1, 3, 0, 110) >>

\* The peak sets of the spectra of the model: no target, one charge complete,
\* df1 alone, df1 twice, df2 twice, two charges complete, df3 missing.
Ms1Shapes ==
    { {}, {4, 6, 8}, {4}, {4, 5, 6, 8}, {4, 6, 7, 8}, {9, 10, 11}, {1, 2, 3},
      {1, 2, 3, 4, 6, 8}, {4, 6, 8, 9, 10, 11}, {9, 10} }

\* Spectrum number k (1-based) of the file holding the candidate peaks `keep`.
Ms1Spectrum(k, keep) ==
    LET ps == SubSeqOf(Ms1CandidatePeaks, keep, 1) IN
    [ retention_time |-> 5 * k,
      scan_number    |-> 2000 + 3 * k,
      mz             |-> [i \in DOMAIN ps |-> ps[i].mz],
      intensities    |-> [i \in DOMAIN ps |-> ps[i].intensity + k] ]

Ms1SpectrumLists == UNION { [1..n -> Ms1Shapes] : n \in 0..MaxMs1Spectra }

\* list(range(1, args.charge + 1)) for args.charge 2 and 3, and two charge_range
\* strings, "3,2" and "2,1".
Ms1ChargeLists == { <<1, 2>>, <<1, 2, 3>>, <<3, 2>>, <<2, 1>> }

\* float("inf"), the default of max_mass: above every mass of the model.
InfMass == 2000000000

\* [min_mass, max_mass] in 1e-5 Da: the defaults 0 and inf, 80 Da and up, up to
\* 100 Da, 200 Da and up.
Ms1MassRanges ==
    { <<0, InfMass>>, <<8000000, InfMass>>, <<0, 10000000>>, <<20000000, InfMass>> }

\* The range test with the upper limit forgotten.
OutOfMassRangeLowerOnly(num, z, lo, hi) == num < lo * z

\* df_list[0] < args.min_mass or df_list[0] > args.max_mass, with df1 = num / z.
OutOfMassRange(num, z, lo, hi) ==
    \/ num < lo * z
    \/ (hi # InfMass /\ num > hi * z)

RECURSIVE SeqMax(_, _)
\* max(list) of a non-empty list, from position i on.
SeqMax(l, i) ==
    IF i = Len(l) THEN l[i]
    ELSE LET m == SeqMax(l, i + 1) IN IF l[i] >= m THEN l[i] ELSE m

IdleMS1 ==
    /\ spectrums_ms1_list = <<>>
    /\ flex_mode = "false"
    /\ min_mass = 0
    /\ max_mass = InfMass
    /\ charge_list = <<>>
    /\ charge_pos = 0
    /\ df_list_dict = EmptyDict
    /\ rt_list_dict = EmptyDict
    /\ scan_num_list_dict = EmptyDict
    /\ df1_intensity_list_dict = EmptyDict
    /\ df2_intensity_list_dict = EmptyDict
    /\ df3_intensity_list_dict = EmptyDict
    /\ max_intensity = 0
    /\ z_fin = 0
    /\ ms1_pc = "idle"

\* align_peaks_matchms_batch up to "for z in charge_list": max_intensity = 0,
\* z_fin = 0, the six dicts empty.
InitMS1 ==
    /\ \E shapes \in Ms1SpectrumLists :
          spectrums_ms1_list = [k \in DOMAIN shapes |-> Ms1Spectrum(k, shapes[k])]
    /\ flex_mode \in {"true", "false"}
    /\ \E r \in Ms1MassRanges : min_mass = r[1] /\ max_mass = r[2]
    /\ charge_list \in Ms1ChargeLists
    /\ charge_pos = 1
    /\ df_list_dict = EmptyDict
    /\ rt_list_dict = EmptyDict
    /\ scan_num_list_dict = EmptyDict
    /\ df1_intensity_list_dict = EmptyDict
    /\ df2_intensity_list_dict = EmptyDict
    /\ df3_intensity_list_dict = EmptyDict
    /\ max_intensity = 0
    /\ z_fin = 0
    /\ ms1_pc = "charges"

\* The replacement that also takes a charge of equal maximum.
ReplacesChoiceOnTie(max_df1_intensity, current_max) == max_df1_intensity >= current_max

\* if max_df1_intensity > max_intensity: the charge replaces the current choice.
ReplacesChoice(max_df1_intensity, current_max) == max_df1_intensity > current_max

\* One iteration of "for z in charge_list".
SearchCharge ==
    /\ ms1_pc = "charges"
    /\ charge_pos <= Len(charge_list)
    /\ LET z == charge_list[charge_pos]
           r == search_ms1(spectrums_ms1_list, z, flex_mode)
       IN IF OutOfMassRange(r.df_list[1], z, min_mass, max_mass)
          THEN /\ charge_pos' = charge_pos + 1
               /\ UNCHANGED <<df_list_dict, rt_list_dict, scan_num_list_dict,
                              df1_intensity_list_dict, df2_intensity_list_dict,
                              df3_intensity_list_dict, max_intensity, z_fin, ms1_pc>>
          ELSE /\ df_list_dict' = DictPut(df_list_dict, z, r.df_list)
               /\ rt_list_dict' = DictPut(rt_list_dict, z, r.trace.rt_list)
               /\ scan_num_list_dict' = DictPut(scan_num_list_dict, z, r.trace.scan_num_list)
               /\ df1_intensity_list_dict' =
                     DictPut(df1_intensity_list_dict, z, r.trace.df1_intensity_list)
               /\ df2_intensity_list_dict' =
                     DictPut(df2_intensity_list_dict, z, r.trace.df2_intensity_list)
               /\ df3_intensity_list_dict' =
                     DictPut(df3_intensity_list_dict, z, r.trace.df3_intensity_list)
               /\ IF r.trace.df1_intensity_list = <<>>
                  THEN \* max() of an empty list raises ValueError
                       /\ ms1_pc' = "value_error"
                       /\ UNCHANGED <<charge_pos, max_intensity, z_fin>>
                  ELSE LET max_df1_intensity == SeqMax(r.trace.df1_intensity_list, 1) IN
                       /\ charge_pos' = charge_pos + 1
                       /\ ms1_pc' = "charges"
                       /\ IF ReplacesChoice(max_df1_intensity, max_intensity)
                          THEN max_intensity' = max_df1_intensity /\ z_fin' = z
                          ELSE UNCHANGED <<max_intensity, z_fin>>
    /\ UNCHANGED <<spectrums_ms1_list, flex_mode, min_mass, max_mass, charge_list>>
    /\ UNCHANGED notMS1

\* After the loop: "if z_fin == 0: ... exit()", else the charge is selected.
ChargeDecided ==
    /\ ms1_pc = "charges"
    /\ charge_pos > Len(charge_list)
    /\ ms1_pc' = IF z_fin = 0 THEN "exit" ELSE "selected"
    /\ UNCHANGED <<spectrums_ms1_list, flex_mode, min_mass, max_mass, charge_list,
                   charge_pos, df_list_dict, rt_list_dict, scan_num_list_dict,
                   df1_intensity_list_dict, df2_intensity_list_dict,
                   df3_intensity_list_dict, max_intensity, z_fin>>
    /\ UNCHANGED notMS1

NextMS1 == SearchCharge \/ ChargeDecided

----------------------------------------------------------------------------
(* find_filter_peaks and check_peaks_distance *)

\* Bound of the traces given to the peak detection.
TraceLen == 7

\* The values a smoothed intensity takes in the model.
PeakHeights == {1, 2, 3}

\* The spacings of the retention times of a trace, in 1/100 minute.
RtGaps == {4, 10}

\* The values of the argument delta, in 1/100 minute (0.2 is the pipeline's).
PeakDeltas == {20, 30}

\* The pairs <<min_height, threshold>> of the model, the threshold in 1/1000:
\* no limit, an absolute limit, a limit relative to the highest sample.
PeakLimits == { <<0, 0>>, <<3, 0>>, <<0, 800>> }

\* The literal 0.2 of "if abs(delta_rt_peak) < 0.2", in 1/100 minute.
CloseLiteral == 20

RECURSIVE SortedSeq(_)
\* The elements of a set of integers as an increasing list (list.sort()).
SortedSeq(S) ==
    IF S = {} THEN <<>> ELSE <<MinOf(S)>> \o SortedSeq(S \ {MinOf(S)})

\* scipy's find_peaks(x): the local maxima of x. A maximum is a run l..r of equal
\* values with a lower sample on each side; its index is the middle of the run,
\* rounded down. The first and the last sample are never maxima.
find_peaks(x) ==
    LET n == Len(x)
        IsRun(l, r) ==
            /\ 1 < l /\ l <= r /\ r < n
            /\ \A j \in l..r : x[j] = x[l]
            /\ x[l - 1] < x[l]
            /\ x[r + 1] < x[l]
    IN SortedSeq({ (l + r) \div 2 : <<l, r>> \in
                     { q \in (1..n) \X (1..n) : IsRun(q[1], q[2]) } })

\* The left base of scipy's peak_prominences(x, peaks): walking left from the
\* peak until a sample higher than the peak or the edge, the lowest value seen.
LeftBaseline(x, p) ==
    LET higher == { j \in 1..(p - 1) : x[j] > x[p] }
        stop == IF higher = {} THEN 0 ELSE MaxOf(higher)
    IN MinOf({ x[j] : j \in (stop + 1)..p })

\* The right base, walking right.
RightBaseline(x, p) ==
    LET higher == { j \in (p + 1)..Len(x) : x[j] > x[p] }
        stop == IF higher = {} THEN Len(x) + 1 ELSE MinOf(higher)
    IN MinOf({ x[j] : j \in p..(stop - 1) })

\* max_baseline = max(left_baseline, right_baseline)
MaxBaseline(x, p) ==
    IF LeftBaseline(x, p) >= RightBaseline(x, p)
    THEN LeftBaseline(x, p) ELSE RightBaseline(x, p)

\* The test of the intensity limit alone, without the ratio to the baseline.
PeakRetainedHeightOnly(x, p, min_h, thr) ==
    /\ x[p] >= min_h
    /\ x[p] * 1000 >= thr * MaxOf(Range(x))

\* if peakIntensity_maxBaseline_ratio >= 2 and intensity_filt_arr[peak_idx] >=
\* min_intensity, with min_intensity = max(min_height, threshold * max_intensity)
\* and the threshold in 1/1000.
PeakRetained(x, p, min_h, thr) ==
    /\ x[p] >= 2 * MaxBaseline(x, p)
    /\ x[p] >= min_h
    /\ x[p] * 1000 >= thr * MaxOf(Range(x))

RECURSIVE FilterPeaks(_, _, _, _, _)
\* The loop "for i, peak_idx in enumerate(peak_idx_arr)" from position i on: the
\* retained peaks, in the order of peak_idx_arr.
FilterPeaks(x, peak_idx_arr, i, min_h, thr) ==
    IF i > Len(peak_idx_arr) THEN <<>>
    ELSE IF PeakRetained(x, peak_idx_arr[i], min_h, thr)
         THEN <<peak_idx_arr[i]>> \o FilterPeaks(x, peak_idx_arr, i + 1, min_h, thr)
         ELSE FilterPeaks(x, peak_idx_arr, i + 1, min_h, thr)

\* abs(delta_rt_peak) < 0.2: the pair is close. The argument delta is not read.
PeaksClose(rt1, rt2, delta) == Abs(rt2 - rt1) < CloseLiteral

RECURSIVE CheckDistanceLoop(_, _, _, _, _, _)
\* The loop "for i, delta_rt_peak in enumerate(delta_rt_peak_arr)" from pair i
\* on, over the set peak_idx_flit2_set.
CheckDistanceLoop(set, peak_idx_list, rt, x, delta, i) ==
    IF i >= Len(peak_idx_list) THEN set
    ELSE LET peak_idx1 == peak_idx_list[i]
             peak_idx2 == peak_idx_list[i + 1]
             delta_intensity == x[peak_idx2] - x[peak_idx1]
         IN IF PeaksClose(rt[peak_idx1], rt[peak_idx2], delta)
            THEN CheckDistanceLoop(
                    IF delta_intensity >= 0 THEN set \ {peak_idx1} ELSE set \ {peak_idx2},
                    peak_idx_list, rt, x, delta, i + 1)
            ELSE CheckDistanceLoop(set, peak_idx_list, rt, x, delta, i + 1)

\* The pass that drops the later peak of every close pair, whatever the
\* intensities are.
CheckDistanceKeepsEarlier(peak_idx_list, rt, x, delta) ==
    SortedSeq(Range(peak_idx_list) \
              { peak_idx_list[i + 1] : i \in { j \in 1..(Len(peak_idx_list) - 1) :
                    PeaksClose(rt[peak_idx_list[j]], rt[peak_idx_list[j + 1]], delta) } })

\* The pass that drops both peaks of every close pair.
CheckDistanceDropsBoth(peak_idx_list, rt, x, delta) ==
    LET close == { j \in 1..(Len(peak_idx_list) - 1) :
                     PeaksClose(rt[peak_idx_list[j]], rt[peak_idx_list[j + 1]], delta) }
    IN SortedSeq(Range(peak_idx_list) \
                 ({ peak_idx_list[j] : j \in close } \cup { peak_idx_list[j + 1] : j \in close }))

\* check_peaks_distance(args, peak_idx_list, rt_list, intensity_filt_arr, delta)
check_peaks_distance(peak_idx_list, rt, x, delta) ==
    SortedSeq(CheckDistanceLoop(Range(peak_idx_list), peak_idx_list, rt, x, delta, 1))

IdlePeaks ==
    /\ pk_rt_list = <<>>
    /\ intensity_filt_arr = <<>>
    /\ pk_min_height = 0
    /\ pk_threshold = 0
    /\ pk_delta = 0
    /\ peak_idx_list2 = <<>>
    /\ peak_baseline_list = <<>>
    /\ peak_idx_list3 = <<>>
    /\ peaks_pc = "idle"

\* find_filter_peaks(args, rt_list, intensity_list, sigma, delta=delta) after
\* gaussian_filter: the smoothed trace is any trace of the model, the retention
\* times rise by a fixed gap.
InitPeaks ==
    /\ intensity_filt_arr \in [1..TraceLen -> PeakHeights]
    /\ \E gap \in RtGaps : pk_rt_list = [i \in 1..TraceLen |-> 100 + gap * i]
    /\ \E lim \in PeakLimits : pk_min_height = lim[1] /\ pk_threshold = lim[2]
    /\ pk_delta \in PeakDeltas
    /\ peak_idx_list2 = <<>>
    /\ peak_baseline_list = <<>>
    /\ peak_idx_list3 = <<>>
    /\ peaks_pc = "called"

\* find_filter_peaks from find_peaks to its return.
FindFilterPeaks ==
    /\ peaks_pc = "called"
    /\ LET kept == FilterPeaks(intensity_filt_arr, find_peaks(intensity_filt_arr), 1,
                               pk_min_height, pk_threshold)
       IN /\ peak_idx_list2' = kept
          /\ peak_baseline_list' =
                [i \in DOMAIN kept |-> MaxBaseline(intensity_filt_arr, kept[i])]
          /\ peak_idx_list3' =
                check_peaks_distance(kept, pk_rt_list, intensity_filt_arr, pk_delta)
    /\ peaks_pc' = "returned"
    /\ UNCHANGED <<pk_rt_list, intensity_filt_arr, pk_min_height, pk_threshold, pk_delta>>
    /\ UNCHANGED notPeaks

NextPeaks == FindFilterPeaks

----------------------------------------------------------------------------
(* find_aligned_peaks and the rows of Glycan_isomers.csv *)

\* Bound of the cap args.max_aligned_record_ms2.
MaxCap == 3

\* float("inf"), the default of max_aligned_record_ms2: above every list length.
InfCap == 1000000

\* delta_peak_scan_num = 100, the margin the pipeline passes.
delta_peak_scan_num == 100

\* The fragments of the model that may have a trace, and the peaks each may
\* have: index in the trace, scan number, smoothed intensity.
AlignFragments == {204087, 366140, 528192}
Ms2CandidatePeaksOf(df) ==
    IF df = 204087
    THEN << [idx |-> 2, scan_num |-> 1000, intensity |-> 300],
            [idx |-> 6, scan_num |-> 1100, intensity |-> 100] >>
    ELSE IF df = 366140
    THEN << [idx |-> 3, scan_num |-> 1050, intensity |-> 250],
            [idx |-> 7, scan_num |-> 1200, intensity |-> 400] >>
    ELSE << [idx |-> 4, scan_num |-> 1150, intensity |-> 150],
            [idx |-> 8, scan_num |-> 1200, intensity |-> 200] >>

\* The MS1 peaks the model may have: index in the trace and scan number.
Ms1CandidatePeakList ==
    << [idx |-> 3, scan_num |-> 1100], [idx |-> 9, scan_num |-> 1201],
       [idx |-> 14, scan_num |-> 1500] >>

\* len(df_ms2_list): the fragments above alone, or with two more targets that
\* have no trace.
TargetCounts == {3, 5}

\* d[k] of a defaultdict(list) that is only read.
DictGet(d, k) == IF k \in DOMAIN d THEN d[k] ELSE <<>>

\* The margin test with the bound excluded.
ScanAlignedStrict(scan_num_ms1, scan_num_ms2) ==
    Abs(scan_num_ms1 - scan_num_ms2) < 100

\* abs(df_peak_scan_num_ms1 - peak_scan_num_ms2) <= delta_peak_scan_num
ScanAligned(scan_num_ms1, scan_num_ms2) ==
    Abs(scan_num_ms1 - scan_num_ms2) <= delta_peak_scan_num

RECURSIVE AlignedOfFragment(_, _, _, _)
\* "for j, peak_scan_num_ms2 in enumerate(df_peak_scan_num_ms2_list)" from j on:
\* the entries of `values` at the aligned positions.
AlignedOfFragment(scan_num_ms1, scan_nums, values, j) ==
    IF j > Len(scan_nums) THEN <<>>
    ELSE IF ScanAligned(scan_num_ms1, scan_nums[j])
         THEN <<values[j]>> \o AlignedOfFragment(scan_num_ms1, scan_nums, values, j + 1)
         ELSE AlignedOfFragment(scan_num_ms1, scan_nums, values, j + 1)

RECURSIVE AlignedOfKeys(_, _, _)
\* "for df_ms2 in df_peak_scan_num_ms2_dict.keys()" over the keys left (here in
\* rising order; the order changes neither the count nor the sum).
AlignedOfKeys(scan_num_ms1, keys, values_dict) ==
    IF keys = {} THEN <<>>
    ELSE LET df == MinOf(keys) IN
         AlignedOfFragment(scan_num_ms1, df_peak_scan_num_ms2_dict[df], values_dict[df], 1)
            \o AlignedOfKeys(scan_num_ms1, keys \ {df}, values_dict)

RECURSIVE SeqSum(_, _)
\* sum(list) from position i on.
SeqSum(l, i) == IF i > Len(l) THEN 0 ELSE l[i] + SeqSum(l, i + 1)

RECURSIVE SortedDescending(_)
\* list.sort(reverse=True)
SortedDescending(l) ==
    IF l = <<>> THEN <<>>
    ELSE LET m == CHOOSE i \in DOMAIN l : \A j \in DOMAIN l : l[i] >= l[j]
         IN <<l[m]>> \o SortedDescending(SubSeq(l, 1, m - 1) \o SubSeq(l, m + 1, Len(l)))

\* The capped sum without the sort: the first cap entries in list order.
CappedTotalUnsorted(aligned_peak_intensity_list, cap) ==
    IF Len(aligned_peak_intensity_list) > cap
    THEN SeqSum(SubSeq(aligned_peak_intensity_list, 1, cap), 1)
    ELSE SeqSum(aligned_peak_intensity_list, 1)

\* The capped sum giving the sentinel 1 for a peak with nothing aligned.
CappedTotalSentinel(aligned_peak_intensity_list, cap) ==
    IF aligned_peak_intensity_list = <<>> THEN 1
    ELSE IF Len(aligned_peak_intensity_list) > cap
    THEN SeqSum(SubSeq(SortedDescending(aligned_peak_intensity_list), 1, cap), 1)
    ELSE SeqSum(aligned_peak_intensity_list, 1)

\* The capped sum of lines 437-442.
CappedTotal(aligned_peak_intensity_list, cap) ==
    IF Len(aligned_peak_intensity_list) > cap
    THEN SeqSum(SubSeq(SortedDescending(aligned_peak_intensity_list), 1, cap), 1)
    ELSE SeqSum(aligned_peak_intensity_list, 1)

\* The percent computed from the count cut at the cap.
MatchedPercentCapped(matched_counts, n_targets) ==
    <<(IF matched_counts > max_aligned_record_ms2 THEN max_aligned_record_ms2
       ELSE matched_counts) * 100, n_targets>>

\* len(aligned)/len(df_ms2_list)*100 as the fraction <<numerator, denominator>>
\* (the float's rounding is left out).
MatchedPercent(matched_counts, n_targets) == <<matched_counts * 100, n_targets>>

\* One row of Glycan_isomers.csv: the columns Height(MS2), Matched Counts and
\* Matched(%) of the MS1 peak.
IsomerRow(peak_idx_ms1, aligned_dict, tot_dict, n_targets) ==
    [ peak_idx_ms1    |-> peak_idx_ms1,
      height_ms2      |-> tot_dict[peak_idx_ms1],
      matched_counts  |-> Len(DictGet(aligned_dict, peak_idx_ms1)),
      matched_percent |-> MatchedPercent(Len(DictGet(aligned_dict, peak_idx_ms1)), n_targets) ]

IdleAlign ==
    /\ df_peak_idx_ms1_list = <<>>
    /\ df_peak_scan_num_ms1_list = <<>>
    /\ df_peak_idx_ms2_dict = EmptyDict
    /\ df_peak_scan_num_ms2_dict = EmptyDict
    /\ df_peak_intensity_dict = EmptyDict
    /\ n_df_ms2 = 0
    /\ max_aligned_record_ms2 = 0
    /\ ms1_peak_pos = 0
    /\ aligned_peak_ms1_2_dict = EmptyDict
    /\ aligned_peak_tot_intenisty_ms2_dict = EmptyDict
    /\ isomers_rows = <<>>
    /\ align_pc = "idle"

\* The call of find_aligned_peaks: some of the MS1 candidate peaks were detected;
\* each fragment has no trace (no key), or a trace with some of its candidate
\* peaks detected (possibly none).
InitAlign ==
    /\ \E keep \in SUBSET (DOMAIN Ms1CandidatePeakList) :
          LET ps == SubSeqOf(Ms1CandidatePeakList, keep, 1) IN
          /\ df_peak_idx_ms1_list = [i \in DOMAIN ps |-> ps[i].idx]
          /\ df_peak_scan_num_ms1_list = [i \in DOMAIN ps |-> ps[i].scan_num]
    /\ \E keys \in SUBSET AlignFragments :
       \E pick \in [AlignFragments -> SUBSET {1, 2}] :
          /\ \A df \in AlignFragments \ keys : pick[df] = {}
          /\ LET ps(df) == SubSeqOf(Ms2CandidatePeaksOf(df), pick[df], 1) IN
             /\ df_peak_idx_ms2_dict = [df \in keys |-> [i \in DOMAIN ps(df) |-> ps(df)[i].idx]]
             /\ df_peak_scan_num_ms2_dict =
                   [df \in keys |-> [i \in DOMAIN ps(df) |-> ps(df)[i].scan_num]]
             /\ df_peak_intensity_dict =
                   [df \in keys |-> [i \in DOMAIN ps(df) |-> ps(df)[i].intensity]]
    /\ n_df_ms2 \in TargetCounts
    /\ max_aligned_record_ms2 \in (1..MaxCap) \cup {InfCap}
    /\ ms1_peak_pos = 1
    /\ aligned_peak_ms1_2_dict = EmptyDict
    /\ aligned_peak_tot_intenisty_ms2_dict = EmptyDict
    /\ isomers_rows = <<>>
    /\ align_pc = "loop"

\* One iteration of the outer loop of find_aligned_peaks, over MS1 peak i.
AlignMs1Peak ==
    /\ align_pc = "loop"
    /\ ms1_peak_pos <= Len(df_peak_scan_num_ms1_list)
    /\ LET df_peak_scan_num_ms1 == df_peak_scan_num_ms1_list[ms1_peak_pos]
           df_peak_idx_ms1 == df_peak_idx_ms1_list[ms1_peak_pos]
           keys == DOMAIN df_peak_scan_num_ms2_dict
           aligned_idx == AlignedOfKeys(df_peak_scan_num_ms1, keys, df_peak_idx_ms2_dict)
           aligned_peak_intensity_list ==
               AlignedOfKeys(df_peak_scan_num_ms1, keys, df_peak_intensity_dict)
       IN /\ aligned_peak_ms1_2_dict' =
                IF aligned_idx = <<>> THEN aligned_peak_ms1_2_dict
                ELSE DictPut(aligned_peak_ms1_2_dict, df_peak_idx_ms1, aligned_idx)
          /\ aligned_peak_tot_intenisty_ms2_dict' =
                DictPut(aligned_peak_tot_intenisty_ms2_dict, df_peak_idx_ms1,
                        CappedTotal(aligned_peak_intensity_list, max_aligned_record_ms2))
    /\ ms1_peak_pos' = ms1_peak_pos + 1
    /\ UNCHANGED <<df_peak_idx_ms1_list, df_peak_scan_num_ms1_list, df_peak_idx_ms2_dict,
                   df_peak_scan_num_ms2_dict, df_peak_intensity_dict, n_df_ms2,
                   max_aligned_record_ms2, isomers_rows, align_pc>>
    /\ UNCHANGED notAlign

\* The return of find_aligned_peaks and the loop writing one row per MS1 peak.
WriteIsomerRows ==
    /\ align_pc = "loop"
    /\ ms1_peak_pos > Len(df_peak_scan_num_ms1_list)
    /\ isomers_rows' =
          [i \in DOMAIN df_peak_idx_ms1_list |->
              IsomerRow(df_peak_idx_ms1_list[i], aligned_peak_ms1_2_dict,
                        aligned_peak_tot_intenisty_ms2_dict, n_df_ms2)]
    /\ align_pc' = "reported"
    /\ UNCHANGED <<df_peak_idx_ms1_list, df_peak_scan_num_ms1_list, df_peak_idx_ms2_dict,
                   df_peak_scan_num_ms2_dict, df_peak_intensity_dict, n_df_ms2,
                   max_aligned_record_ms2, ms1_peak_pos, aligned_peak_ms1_2_dict,
                   aligned_peak_tot_intenisty_ms2_dict>>
    /\ UNCHANGED notAlign

NextAlign == AlignMs1Peak \/ WriteIsomerRows

----------------------------------------------------------------------------
(* find_nearest_precursor_mz and the precursor bucket given to extract_info_ms2 *)

\* Bound of the MS2 spectra of a file with precursors.
MaxPrecSpectra == 3

\* prec_mz_nearest = None
NonePrecMz == 0

\* The precursor m/z values an MS2 spectrum of the model may carry, in 1e-5 Da:
\* 5 Da below df1 of charge 1, 5 Da above it, 2 Da above it.
PrecMzCandidates == {17607066, 18607066, 18307066}

\* The peak sets of the MS2 spectra of the model: every target, one target.
PrecShapes == { {1, 3, 4}, {2} }

\* Spectrum number k (1-based) with its precursor m/z.
PrecSpectrum(k, keep, prec) ==
    LET sp == Ms2Spectrum(k, keep) IN
    [ retention_time |-> sp.retention_time, scan_number |-> sp.scan_number,
      mz |-> sp.mz, intensities |-> sp.intensities, precursor_mz |-> prec ]

PrecSpectrumLists ==
    UNION { [1..n -> PrecShapes \X PrecMzCandidates] : n \in 0..MaxPrecSpectra }

RECURSIVE PrecKeys(_, _)
\* The keys of precMZ_spectID_dict in insertion order: the precursor m/z of the
\* spectra up to position i, each at its first occurrence.
PrecKeys(spectra, i) ==
    IF i = 0 THEN <<>>
    ELSE LET before == PrecKeys(spectra, i - 1) IN
         IF spectra[i].precursor_mz \in Range(before) THEN before
         ELSE Append(before, spectra[i].precursor_mz)

RECURSIVE IdxOfPrec(_, _, _)
\* precMZ_spectID_dict[prec]: the indices of the spectra with that precursor m/z,
\* from position i on.
IdxOfPrec(spectra, prec, i) ==
    IF i > Len(spectra) THEN <<>>
    ELSE IF spectra[i].precursor_mz = prec THEN <<i>> \o IdxOfPrec(spectra, prec, i + 1)
    ELSE IdxOfPrec(spectra, prec, i + 1)

\* The loop that builds precMZ_spectID_dict.
PrecIdxDict(spectra) ==
    [prec \in Range(PrecKeys(spectra, Len(spectra))) |-> IdxOfPrec(spectra, prec, 1)]

\* The index after a read that takes the bucket out of it (dict.pop).
DictPopItem(d, k) == [x \in DOMAIN d \ {k} |-> d[x]]

\* The index after the read precMZ_spectID_dict[k]: a defaultdict(list) gets the
\* key k with an empty list if it does not hold it.
DefaultDictGetItem(d, k) ==
    IF k \in DOMAIN d THEN d ELSE [x \in DOMAIN d \cup {k} |-> IF x = k THEN <<>> ELSE d[x]]

\* delta = abs(prec_mz - df), times z.
PrecDelta(prec_mz, num, z) == Abs(z * prec_mz - num)

\* The update test taking a key that is as near as the best so far.
NearerOrEqual(delta, best) == delta <= best

\* if delta < delta_min
Nearer(delta, best) == delta < best

IdlePrec ==
    /\ precMZ_keys = <<>>
    /\ precMZ_spectID_dict = EmptyDict
    /\ prec_z = 0
    /\ prec_df_num = 0
    /\ prec_pos = 0
    /\ delta_min = InfMass
    /\ prec_mz_nearest = NonePrecMz
    /\ precursor_mz_list = <<>>
    /\ prec_pc = "idle"

\* align_peaks_matchms_batch at the call find_nearest_precursor_mz(df1,
\* precMZ_spectID_dict): the MS2 spectra of the file and their precursor index,
\* df1 of the selected charge, extract_info_ms2 not yet called.
InitPrec ==
    /\ \E shapes \in PrecSpectrumLists :
          LET spectra == [k \in DOMAIN shapes |-> PrecSpectrum(k, shapes[k][1], shapes[k][2])]
          IN /\ spectrums_ms2_list = spectra
             /\ precMZ_keys = PrecKeys(spectra, Len(spectra))
             /\ precMZ_spectID_dict = PrecIdxDict(spectra)
    /\ prec_z \in {1, 2}
    /\ prec_df_num = DfList(prec_z)[1]
    /\ df_cnt_min \in {1, 3}
    /\ ppm_ms2 = Ms2PpmLiteral
    /\ spec_ms2_idx_list = <<>>
    /\ spec_ms2_pos = 0
    /\ df_intensity_dict = EmptyDict
    /\ df_rt_dict = EmptyDict
    /\ df_scan_num_dict = EmptyDict
    /\ ms2_pc = "idle"
    /\ prec_pos = 1
    /\ delta_min = InfMass
    /\ prec_mz_nearest = NonePrecMz
    /\ precursor_mz_list = <<>>
    /\ prec_pc = "loop"

\* One iteration of "for prec_mz in precMZ_spectID_dict.keys()".
NearestStep ==
    /\ prec_pc = "loop"
    /\ prec_pos <= Len(precMZ_keys)
    /\ LET prec_mz == precMZ_keys[prec_pos]
           delta == PrecDelta(prec_mz, prec_df_num, prec_z)
       IN IF Nearer(delta, delta_min)
          THEN prec_mz_nearest' = prec_mz /\ delta_min' = delta
          ELSE UNCHANGED <<prec_mz_nearest, delta_min>>
    /\ prec_pos' = prec_pos + 1
    /\ UNCHANGED <<precMZ_keys, precMZ_spectID_dict, prec_z, prec_df_num, precursor_mz_list,
                   prec_pc>>
    /\ UNCHANGED ms2vars
    /\ UNCHANGED notPrec

\* The return without the assertion: [None] is returned for an empty index.
NearestReturnNoAssert ==
    /\ prec_pc = "loop"
    /\ prec_pos > Len(precMZ_keys)
    /\ prec_pc' = "returned"
    /\ precursor_mz_list' = <<prec_mz_nearest>>
    /\ UNCHANGED <<precMZ_keys, precMZ_spectID_dict, prec_z, prec_df_num, prec_pos, delta_min,
                   prec_mz_nearest>>
    /\ UNCHANGED ms2vars
    /\ UNCHANGED notPrec

\* assert(prec_mz_nearest is not None); return [prec_mz_nearest]
NearestReturn ==
    /\ prec_pc = "loop"
    /\ prec_pos > Len(precMZ_keys)
    /\ IF prec_mz_nearest = NonePrecMz
       THEN prec_pc' = "assert_failed" /\ UNCHANGED precursor_mz_list
       ELSE prec_pc' = "returned" /\ precursor_mz_list' = <<prec_mz_nearest>>
    /\ UNCHANGED <<precMZ_keys, precMZ_spectID_dict, prec_z, prec_df_num, prec_pos, delta_min,
                   prec_mz_nearest>>
    /\ UNCHANGED ms2vars
    /\ UNCHANGED notPrec

\* for precursor_mz in precursor_mz_list: spec_ms2_idx_list =
\* precMZ_spectID_dict[precursor_mz]; extract_info_ms2(...) is entered.
ExtractCall ==
    /\ prec_pc = "returned"
    /\ prec_pc' = "extracting"
    /\ spec_ms2_idx_list' = DictGet(precMZ_spectID_dict, precursor_mz_list[1])
    /\ spec_ms2_pos' = 1
    /\ df_intensity_dict' = EmptyDict
    /\ df_rt_dict' = EmptyDict
    /\ df_scan_num_dict' = EmptyDict
    /\ ms2_pc' = "loop"
    /\ precMZ_spectID_dict' = DefaultDictGetItem(precMZ_spectID_dict, precursor_mz_list[1])
    /\ precMZ_keys' = SubSeqOf(precMZ_keys, { i \in DOMAIN precMZ_keys :
                                   precMZ_keys[i] \in DOMAIN precMZ_spectID_dict' }, 1)
                      \o (IF precursor_mz_list[1] \in Range(precMZ_keys) THEN <<>>
                          ELSE <<precursor_mz_list[1]>>)
    /\ UNCHANGED <<spectrums_ms2_list, df_cnt_min, ppm_ms2>>
    /\ UNCHANGED <<prec_z, prec_df_num, prec_pos, delta_min, prec_mz_nearest,
                   precursor_mz_list>>
    /\ UNCHANGED notPrec

NextPrec == NearestStep \/ NearestReturn \/ ExtractCall \/ ExtractSpectrum \/ ExtractReturn

----------------------------------------------------------------------------
(* The compound key: built in extrac_dataset_info, split in __main__, and its
   addon mass read by search_ms1.  A string is a sequence of characters. *)

\* Bound of the composition codes: the number of counts of a code.
MaxCounts == 2

\* The digits of a count.
CountDigits == {"0", "3", "5"}

RECURSIVE JoinCounts(_, _)
\* A composition code: counts joined by "_", from position i on.
JoinCounts(counts, i) ==
    IF i > Len(counts) THEN <<>>
    ELSE (IF i > 1 THEN <<"_">> ELSE <<>>) \o <<counts[i]>> \o JoinCounts(counts, i + 1)

\* The composition codes of the compound list.
KeyCpdInputs ==
    { JoinCounts(counts, 1) : counts \in UNION { [1..n -> CountDigits] : n \in 1..MaxCounts } }

\* The addon masses of the compound list: "0", "42.01057", "-18.01056", "-0.5".
KeyAddonInputs ==
    { <<"0">>,
      <<"4", "2", ".", "0", "1", "0", "5", "7">>,
      <<"-", "1", "8", ".", "0", "1", "0", "5", "6">>,
      <<"-", "0", ".", "5">> }

RECURSIVE StrSplit(_, _, _)
\* str.split(sep): the pieces of s between the occurrences of sep, cur being the
\* piece read so far.
StrSplit(s, sep, cur) ==
    IF s = <<>> THEN <<cur>>
    ELSE IF Head(s) = sep THEN <<cur>> \o StrSplit(Tail(s), sep, <<>>)
    ELSE StrSplit(Tail(s), sep, Append(cur, Head(s)))

\* The value of a digit character.
DigitValue(c) ==
    CASE c = "0" -> 0 [] c = "1" -> 1 [] c = "2" -> 2 [] c = "3" -> 3 [] c = "4" -> 4
      [] c = "5" -> 5 [] c = "6" -> 6 [] c = "7" -> 7 [] c = "8" -> 8 [] c = "9" -> 9

RECURSIVE DigitsValue(_, _)
\* The integer the digits of s spell, the point left out, after the value acc.
DigitsValue(s, acc) ==
    IF s = <<>> THEN acc
    ELSE IF Head(s) = "." THEN DigitsValue(Tail(s), acc)
    ELSE DigitsValue(Tail(s), 10 * acc + DigitValue(Head(s)))

RECURSIVE Pow10(_)
Pow10(n) == IF n = 0 THEN 1 ELSE 10 * Pow10(n - 1)

\* The number of digits after the point.
Decimals(s) ==
    IF \E i \in DOMAIN s : s[i] = "."
    THEN Len(s) - (CHOOSE i \in DOMAIN s : s[i] = ".")
    ELSE 0

\* float(s) raises ValueError on a string that spells no number: here the empty
\* string and a lone sign.
IsFloat(s) == s # <<>> /\ s # <<"-">>

\* float(s) in 1e-5, of a string that spells a number.
ParseFloat(s) ==
    IF Head(s) = "-"
    THEN 0 - DigitsValue(Tail(s), 0) * Pow10(5 - Decimals(s))
    ELSE DigitsValue(s, 0) * Pow10(5 - Decimals(s))

IdleKey ==
    /\ key_cpd = <<>>
    /\ key_addon_mass = <<>>
    /\ cpd_addon = <<>>
    /\ split_cpd = <<>>
    /\ split_addon_mass = <<>>
    /\ addon_mass_value = 0
    /\ key_pc = "idle"

\* A row of the compound list is read: cpd = row[0], addon_mass = row[2].
InitKey ==
    /\ key_cpd \in KeyCpdInputs
    /\ key_addon_mass \in KeyAddonInputs
    /\ cpd_addon = <<>>
    /\ split_cpd = <<>>
    /\ split_addon_mass = <<>>
    /\ addon_mass_value = 0
    /\ key_pc = "row"

\* cpd_addon = cpd + "-" + addon_mass
BuildKey ==
    /\ key_pc = "row"
    /\ cpd_addon' = key_cpd \o <<"-">> \o key_addon_mass
    /\ key_pc' = "built"
    /\ UNCHANGED <<key_cpd, key_addon_mass, split_cpd, split_addon_mass, addon_mass_value>>
    /\ UNCHANGED notKey

\* cpd = cpd_addon.split("-")[0]; addon_mass = cpd_addon.split("-")[1]
SplitKey ==
    /\ key_pc = "built"
    /\ split_cpd' = StrSplit(cpd_addon, "-", <<>>)[1]
    /\ split_addon_mass' = StrSplit(cpd_addon, "-", <<>>)[2]
    /\ key_pc' = "split"
    /\ UNCHANGED <<key_cpd, key_addon_mass, cpd_addon, addon_mass_value>>
    /\ UNCHANGED notKey

\* addon_mass = float(args.addon_mass)
ParseAddon ==
    /\ key_pc = "split"
    /\ IF ~IsFloat(split_addon_mass)
       THEN /\ key_pc' = "ValueError"
            /\ UNCHANGED addon_mass_value
       ELSE /\ addon_mass_value' = ParseFloat(split_addon_mass)
            /\ key_pc' = "parsed"
    /\ UNCHANGED <<key_cpd, key_addon_mass, cpd_addon, split_cpd, split_addon_mass>>
    /\ UNCHANGED notKey

NextKey == BuildKey \/ SplitKey \/ ParseAddon

----------------------------------------------------------------------------
(* The driver: the loops of __main__ over the datasets and the compounds *)

\* Bounds of the batch.
MaxDatasets == 2
MaxCompounds == 3

\* The Height(MS2) a compound's rows may carry.
RowHeightsMs2 == {0, 50}

\* The notes (subtypes) of the compound list.
Notes == {"High Mannose", "Complex"}

RECURSIVE SumField(_, _, _)
\* The sum of a column of the rows, from position i on (tot_h_ms1, tot_h_ms2).
SumField(rows, field, i) ==
    IF i > Len(rows) THEN 0
    ELSE (IF field = "h_ms1" THEN rows[i].h_ms1 ELSE rows[i].h_ms2)
         + SumField(rows, field, i + 1)

\* The rows of one note, in order.
RowsOfNote(rows, note) == SelectSeq(rows, LAMBDA r : r.note = note)

\* The keys of note_tot_h_ms1_dict: a defaultdict gets a key when a row of the
\* note is added to it.
NoteKeys(rows) == { rows[i].note : i \in DOMAIN rows }

\* The four header columns of one dataset.
HeadColumns(dataset) ==
    << <<"Height (MS1)_Data File ", dataset>>,
       <<"Relative Height (MS1 %)_Data File", dataset>>,
       <<"Height (MS2)_Data File ", dataset>>,
       <<"Relative Height (MS2 %)_Data File", dataset>> >>

\* The four values of a note: its heights and their shares of the totals, a
\* share h / tot * 100 kept as the pair <<h * 100, tot>>.
SubtypeValues(rows, note) ==
    << SumField(RowsOfNote(rows, note), "h_ms1", 1),
       << SumField(RowsOfNote(rows, note), "h_ms1", 1) * 100, SumField(rows, "h_ms1", 1) >>,
       SumField(RowsOfNote(rows, note), "h_ms2", 1),
       << SumField(RowsOfNote(rows, note), "h_ms2", 1) * 100, SumField(rows, "h_ms2", 1) >> >>

\* The notes visited by "for note in note_tot_h_ms1_dict.keys()".
SubtypeLoopNotes(rows) == NoteKeys(rows)

\* subtype_root_row_dict after the subtype loop of a dataset.
SubtypeRootRows(root, rows) ==
    [ note \in DOMAIN root \cup SubtypeLoopNotes(rows) |->
        (IF note \in DOMAIN root THEN root[note] ELSE <<>>)
        \o (IF note \in SubtypeLoopNotes(rows) THEN SubtypeValues(rows, note) ELSE <<>>) ]

IdleDriver ==
    /\ dataset_list = <<>>
    /\ cpdAddon_note_list = <<>>
    /\ dataset_pos = 0
    /\ cpd_pos = 0
    /\ isomers_row_list = <<>>
    /\ compound_files = {}
    /\ dataset_rollups = {}
    /\ subtype_files = <<>>
    /\ subtype_root_head = <<>>
    /\ subtype_root_row_dict = EmptyDict
    /\ combined_written = FALSE
    /\ driver_pc = "idle"

\* __main__ after the configuration is read and the first dataset is loaded.
InitDriver ==
    /\ dataset_list \in UNION { [1..n -> BOOLEAN] : n \in 1..MaxDatasets }
    /\ cpdAddon_note_list \in
           UNION { [1..n -> [in_range : BOOLEAN, note : Notes]] : n \in 1..MaxCompounds }
    /\ dataset_pos = 1
    /\ cpd_pos = 1
    /\ isomers_row_list = <<>>
    /\ compound_files = {}
    /\ dataset_rollups = {}
    /\ subtype_files = <<>>
    /\ subtype_root_head = <<"Subtype">> \o HeadColumns(1)
    /\ subtype_root_row_dict = EmptyDict
    /\ combined_written = FALSE
    /\ driver_pc = "compounds"

\* One iteration of "for cpd_addon, note in cpdAddon_note_list": the call of
\* align_peaks_matchms_batch and the reading of its Glycan_isomers.csv.  exit()
\* and a failed assertion are not caught: they end the process.
AnalyseCompound ==
    /\ driver_pc = "compounds"
    /\ cpd_pos <= Len(cpdAddon_note_list)
    /\ IF ~cpdAddon_note_list[cpd_pos].in_range
       THEN /\ driver_pc' = "SystemExit"
            /\ UNCHANGED <<cpd_pos, isomers_row_list, compound_files>>
       ELSE IF ~dataset_list[dataset_pos]
       THEN /\ driver_pc' = "AssertionError"
            /\ UNCHANGED <<cpd_pos, isomers_row_list, compound_files>>
       ELSE /\ \E n_rows \in 0..1, h2 \in RowHeightsMs2 :
                  isomers_row_list' =
                      isomers_row_list \o
                      [i \in 1..n_rows |-> [cpd |-> cpd_pos,
                                            note |-> cpdAddon_note_list[cpd_pos].note,
                                            h_ms1 |-> 100, h_ms2 |-> h2]]
            /\ compound_files' = compound_files \cup {<<dataset_pos, cpd_pos>>}
            /\ cpd_pos' = cpd_pos + 1
            /\ driver_pc' = "compounds"
    /\ UNCHANGED <<dataset_list, cpdAddon_note_list, dataset_pos, dataset_rollups,
                   subtype_files, subtype_root_head, subtype_root_row_dict,
                   combined_written>>
    /\ UNCHANGED notDriver

\* After the compounds of a dataset: Glycan_isomers.csv, Glycan_composition.csv
\* and Glycan_subtype.csv of the dataset (the relative heights divide by the
\* totals), then the next dataset, whose columns join the combined headers, or
\* the combined files.
DatasetRollup ==
    /\ driver_pc = "compounds"
    /\ cpd_pos > Len(cpdAddon_note_list)
    /\ IF SumField(isomers_row_list, "h_ms1", 1) = 0 \/ SumField(isomers_row_list, "h_ms2", 1) = 0
       THEN /\ driver_pc' = "ZeroDivisionError"
            /\ UNCHANGED <<dataset_pos, cpd_pos, isomers_row_list, dataset_rollups,
                           subtype_files, subtype_root_head, subtype_root_row_dict>>
       ELSE /\ dataset_rollups' = dataset_rollups \cup {dataset_pos}
            /\ subtype_files' =
                   Append(subtype_files,
                          [note \in NoteKeys(isomers_row_list) |->
                               SubtypeValues(isomers_row_list, note)])
            /\ subtype_root_row_dict' = SubtypeRootRows(subtype_root_row_dict, isomers_row_list)
            /\ subtype_root_head' =
                   IF dataset_pos = Len(dataset_list) THEN subtype_root_head
                   ELSE subtype_root_head \o HeadColumns(dataset_pos + 1)
            /\ dataset_pos' = dataset_pos + 1
            /\ cpd_pos' = 1
            /\ isomers_row_list' = <<>>
            /\ driver_pc' = IF dataset_pos = Len(dataset_list) THEN "combined" ELSE "compounds"
    /\ UNCHANGED <<dataset_list, cpdAddon_note_list, compound_files, combined_written>>
    /\ UNCHANGED notDriver

\* Glycan_composition_combined.csv and Glycan_subtype_combined.csv.
CombinedRollup ==
    /\ driver_pc = "combined"
    /\ combined_written' = TRUE
    /\ driver_pc' = "done"
    /\ UNCHANGED <<dataset_list, cpdAddon_note_list, dataset_pos, cpd_pos, isomers_row_list,
                   compound_files, dataset_rollups, subtype_files, subtype_root_head,
                   subtype_root_row_dict>>
    /\ UNCHANGED notDriver

NextDriver == AnalyseCompound \/ DatasetRollup \/ CombinedRollup

----------------------------------------------------------------------------
(* Arguments.__init__ and the masses of search_ms1 *)

\* Bound of the charge.
MaxCharge == 3

\* The values of polarity and adduct a configuration may hold.
PolarityInputs == {"positive", "negative", "neutral"}
AdductInputs == {"H", "Na", "K", "NH4", "Li"}

\* The compositions and add-on masses (1e-5 Da) of the model.
CpdInputs == { <<1, 0, 0, 0, 0>>, <<5, 4, 0, 1, 0>>, <<3, 2, 1, 0, 0>> }
AddonInputs == {0, 4201057}

\* The check that looks at the polarity only.
ArgumentsValidPolarityOnly(polarity, adduct) == polarity \in {"positive", "negative"}

\* assert(polarity in ["positive", "negative"]); assert(adduct in ["H", "Na", "K", "NH4"])
ArgumentsValid(polarity, adduct) ==
    /\ polarity \in {"positive", "negative"}
    /\ adduct \in {"H", "Na", "K", "NH4"}

IdleArgs ==
    /\ arg_polarity = "positive"
    /\ arg_adduct = "H"
    /\ arg_cpd_list = <<>>
    /\ arg_addon_mass = 0
    /\ arg_z = 0
    /\ arg_df_list = <<>>
    /\ args_pc = "idle"

\* The call Arguments(...) of the driver with the values of the configuration.
InitArgs ==
    /\ arg_polarity \in PolarityInputs
    /\ arg_adduct \in AdductInputs
    /\ arg_cpd_list \in CpdInputs
    /\ arg_addon_mass \in AddonInputs
    /\ arg_z \in 1..MaxCharge
    /\ arg_df_list = <<>>
    /\ args_pc = "init"

\* Arguments.__init__: the two assertions at its end.
ConstructArguments ==
    /\ args_pc = "init"
    /\ args_pc' = IF ArgumentsValid(arg_polarity, arg_adduct) THEN "constructed"
                  ELSE "AssertionError"
    /\ UNCHANGED <<arg_polarity, arg_adduct, arg_cpd_list, arg_addon_mass, arg_z, arg_df_list>>
    /\ UNCHANGED notArgs

\* adduct_mass = adduct_tab[args.adduct], then df1, df2, df3 of search_ms1.
ComputeDf ==
    /\ args_pc = "constructed"
    /\ IF arg_adduct \notin DOMAIN adduct_tab
       THEN args_pc' = "KeyError" /\ UNCHANGED arg_df_list
       ELSE /\ args_pc' = "computed"
            /\ arg_df_list' = [k \in 1..3 |->
                   DfNum(arg_cpd_list, arg_addon_mass, arg_polarity, adduct_tab[arg_adduct],
                         arg_z, k)]
    /\ UNCHANGED <<arg_polarity, arg_adduct, arg_cpd_list, arg_addon_mass, arg_z>>
    /\ UNCHANGED notArgs

NextArgs == ConstructArguments \/ ComputeDf

----------------------------------------------------------------------------
(* The specifications *)

StartMS2 == InitMS2 /\ IdleMS1 /\ IdlePeaks /\ IdleAlign /\ IdlePrec /\ IdleDriver /\ IdleArgs /\ IdleKey
SpecMS2 == StartMS2 /\ [][NextMS2]_vars

StartMS1 == InitMS1 /\ IdleMS2 /\ IdlePeaks /\ IdleAlign /\ IdlePrec /\ IdleDriver /\ IdleArgs /\ IdleKey
SpecMS1 == StartMS1 /\ [][NextMS1]_vars

StartPeaks == InitPeaks /\ IdleMS2 /\ IdleMS1 /\ IdleAlign /\ IdlePrec /\ IdleDriver /\ IdleArgs /\ IdleKey
SpecPeaks == StartPeaks /\ [][NextPeaks]_vars

StartAlign == InitAlign /\ IdleMS2 /\ IdleMS1 /\ IdlePeaks /\ IdlePrec /\ IdleDriver /\ IdleArgs /\ IdleKey
SpecAlign == StartAlign /\ [][NextAlign]_vars

\* The two trace builders side by side: a behaviour runs one of them.
StartTraces == StartMS2 \/ StartMS1
NextTraces == ExtractSpectrum \/ ExtractReturn \/ SearchCharge \/ ChargeDecided
SpecTraces == StartTraces /\ [][NextTraces]_vars

StartPrec == InitPrec /\ IdleMS1 /\ IdlePeaks /\ IdleAlign /\ IdleDriver /\ IdleArgs /\ IdleKey
SpecPrec == StartPrec /\ [][NextPrec]_vars

StartDriver == InitDriver /\ IdleMS2 /\ IdleMS1 /\ IdlePeaks /\ IdleAlign /\ IdlePrec /\ IdleArgs /\ IdleKey
SpecDriver == StartDriver /\ [][NextDriver]_vars

\* One compound's analysis, part by part: a behaviour runs the MS1 search and
\* charge selection, or the precursor selection and the MS2 aggregation.
StartCompound == StartMS1 \/ StartPrec
NextCompound ==
    \/ SearchCharge \/ ChargeDecided
    \/ NearestStep \/ NearestReturn \/ ExtractCall \/ ExtractSpectrum \/ ExtractReturn
SpecCompound == StartCompound /\ [][NextCompound]_vars

StartArgs ==
    InitArgs /\ IdleMS2 /\ IdleMS1 /\ IdlePeaks /\ IdleAlign /\ IdlePrec /\ IdleDriver /\ IdleKey
SpecArgs == StartArgs /\ [][NextArgs]_vars

StartKey ==
    InitKey /\ IdleMS2 /\ IdleMS1 /\ IdlePeaks /\ IdleAlign /\ IdlePrec /\ IdleDriver
    /\ IdleArgs
SpecKey == StartKey /\ [][NextKey]_vars

----------------------------------------------------------------------------
(* Properties of extract_info_ms2 *)

\* The number of distinct target fragments matched within tolerance in a spectrum.
FoundCount(spectrum) ==
    Cardinality({ df_ms2_list[i] : i \in { j \in DOMAIN df_ms2_list :
        MatchIdxArr(spectrum.mz, df_ms2_list[j], delta_mz_ms2_list[j]) # {} } })

\* The spectra the loop of extract_info_ms2 has gone through.
ProcessedMs2 == { spectrums_ms2_list[spec_ms2_idx_list[p]] : p \in 1..(spec_ms2_pos - 1) }

\* The scan numbers recorded in any fragment's trace.
RecordedScanNums == UNION { Range(df_scan_num_dict[df]) : df \in DOMAIN df_scan_num_dict }

\* C1: a processed MS2 spectrum in which fewer than df_cnt_min distinct target
\* fragments are found adds no entry to any fragment's trace.
C1_SkippedBelowDfCntMin ==
    \A sp \in ProcessedMs2 :
        FoundCount(sp) < df_cnt_min => sp.scan_number \notin RecordedScanNums

\* Some peak of the spectrum is within ppm * m / 1e6 of target number j.
WithinPpm(spectrum, j, ppm) ==
    MatchIdxArr(spectrum.mz, df_ms2_list[j], PpmDelta(ppm, df_ms2_list[j])) # {}

\* C18: target fragment m is matched in a spectrum within the tolerance
\* ppm_ms2 * m / 1e6 of the configured MS2 mass error: with one found fragment
\* enough for a spectrum to count, a processed spectrum is recorded in the trace
\* of m exactly if one of its peaks is within that tolerance.
C18_Ms2ToleranceFromConfiguredPpm ==
    df_cnt_min = 1 =>
        \A sp \in ProcessedMs2 :
            \A j \in DOMAIN df_ms2_list :
                WithinPpm(sp, j, ppm_ms2) <=>
                    sp.scan_number \in Range(DictGet(df_scan_num_dict, df_ms2_list[j]))

\* The tolerance in use is 10 * m / 1e6 whatever ppm_ms2 is.
C18_Ms2ToleranceIsTenPpm ==
    df_cnt_min = 1 =>
        \A sp \in ProcessedMs2 :
            \A j \in DOMAIN df_ms2_list :
                WithinPpm(sp, j, Ms2PpmLiteral) <=>
                    sp.scan_number \in Range(DictGet(df_scan_num_dict, df_ms2_list[j]))

\* The position in spec_ms2_idx_list of the spectrum with scan number sn.
PositionOfScan(sn) ==
    CHOOSE p \in DOMAIN spec_ms2_idx_list :
        spectrums_ms2_list[spec_ms2_idx_list[p]].scan_number = sn

\* The entries of the trace of df that carry the scan number of the spectrum.
EntriesOf(df, spectrum) ==
    { i \in DOMAIN DictGet(df_scan_num_dict, df) :
        df_scan_num_dict[df][i] = spectrum.scan_number }

\* C22: a processed spectrum in which at least df_cnt_min fragments are found
\* has one entry (its intensity at the matching peak, its rt, its scan number)
\* in the trace of every fragment found in it and none in the trace of a
\* fragment not found; the entries of every trace are in the order of
\* spec_ms2_idx_list.
C22_OneEntryPerFoundFragment ==
    /\ \A sp \in ProcessedMs2 :
          FoundCount(sp) >= df_cnt_min =>
              \A j \in DOMAIN df_ms2_list :
                  LET df == df_ms2_list[j]
                      found == MatchIdxArr(sp.mz, df, delta_mz_ms2_list[j])
                  IN IF found = {} THEN EntriesOf(df, sp) = {}
                     ELSE /\ Cardinality(EntriesOf(df, sp)) = 1
                          /\ \A i \in EntriesOf(df, sp) :
                                /\ df_rt_dict[df][i] = sp.retention_time
                                /\ df_intensity_dict[df][i] \in { sp.intensities[q] : q \in found }
    /\ \A df \in DOMAIN df_scan_num_dict :
          /\ Len(df_rt_dict[df]) = Len(df_scan_num_dict[df])
          /\ Len(df_intensity_dict[df]) = Len(df_scan_num_dict[df])
          /\ \A i, k \in DOMAIN df_scan_num_dict[df] :
                i < k => PositionOfScan(df_scan_num_dict[df][i])
                            < PositionOfScan(df_scan_num_dict[df][k])

\* C22's case: two qualifying spectra, the first with the first fragment and
\* without the last, the second with both: two entries in one trace in the
\* order of the spectra, one in the other.
C22_Witness ==
    /\ ms2_pc = "returned"
    /\ df_cnt_min = 2
    /\ Len(spectrums_ms2_list) = 2
    /\ FoundCount(spectrums_ms2_list[1]) = 2
    /\ FoundCount(spectrums_ms2_list[2]) = 3
    /\ Len(DictGet(df_scan_num_dict, df_ms2_list[1])) = 2
    /\ DictGet(df_scan_num_dict, df_ms2_list[3]) = <<spectrums_ms2_list[2].scan_number>>

\* More than one peak of the spectrum is within the tolerance of one target.
AmbiguousMs2(spectrum) ==
    \E j \in DOMAIN df_ms2_list :
        Cardinality(MatchIdxArr(spectrum.mz, df_ms2_list[j], delta_mz_ms2_list[j])) > 1

\* C23: if a spectrum of the bucket has more than one peak within the tolerance
\* of one target, extract_info_ms2 never returns: the loop does not get past
\* that spectrum and no entry of it is recorded.
C23_AmbiguousMs2MatchIsFatal ==
    \A p \in DOMAIN spec_ms2_idx_list :
        LET sp == spectrums_ms2_list[spec_ms2_idx_list[p]] IN
        AmbiguousMs2(sp) =>
            /\ ms2_pc # "returned"
            /\ spec_ms2_pos <= p
            /\ \A df \in DOMAIN df_scan_num_dict : EntriesOf(df, sp) = {}

\* C23's case: the first spectrum was recorded, the second has two peaks in the
\* tolerance of a target, and the assertion has failed there.
C23_Witness ==
    /\ ms2_pc = "assert_failed"
    /\ Len(spectrums_ms2_list) = 2
    /\ spec_ms2_pos = 2
    /\ AmbiguousMs2(spectrums_ms2_list[2])
    /\ df_scan_num_dict # EmptyDict

----------------------------------------------------------------------------
(* Properties of search_ms1 and of the charge selection *)

\* The charge's df1 lies in [min_mass, max_mass].
InMassRange(z) ==
    LET num == DfList(z)[1] IN
    /\ num >= min_mass * z
    /\ (max_mass = InfMass \/ num <= max_mass * z)

\* The df1 trace recorded for charge z holds only the sentinel 1.
OnlySentinel(z) ==
    \A i \in DOMAIN df1_intensity_list_dict[z] : df1_intensity_list_dict[z][i] = 1

\* No charge is skipped-free with a signal: every charge of the list is out of the
\* mass range or has a df1 trace of sentinels only.
NoChargeWithSignal ==
    \A i \in DOMAIN charge_list :
        LET z == charge_list[i] IN
        ~InMassRange(z) \/ (z \in DOMAIN df1_intensity_list_dict /\ OnlySentinel(z))

\* C3: when the selection is over and every charge was skipped or gave no signal,
\* the selection has ended in the fatal exit (no charge selected).
C3_NoSignalIsFatal ==
    (ms1_pc \in {"selected", "exit"} /\ NoChargeWithSignal) => ms1_pc = "exit"

\* C4: the selected charge is a charge of the list whose df1 is in the mass range,
\* and its df1 trace's maximum is at least that of every other in-range charge.
C4_SelectedChargeInRangeAndMaximal ==
    ms1_pc = "selected" =>
        /\ \E i \in DOMAIN charge_list : charge_list[i] = z_fin
        /\ InMassRange(z_fin)
        /\ \A i \in DOMAIN charge_list :
              InMassRange(charge_list[i]) =>
                 SeqMax(df1_intensity_list_dict[z_fin], 1) >=
                    SeqMax(df1_intensity_list_dict[charge_list[i]], 1)

\* C4's case: a charge is selected although a charge out of the mass range has a
\* greater df1 maximum in the same spectra.
C4_Witness ==
    /\ ms1_pc = "selected"
    /\ \E i \in DOMAIN charge_list :
          LET z == charge_list[i]
              l == search_ms1(spectrums_ms1_list, z, flex_mode).trace.df1_intensity_list
          IN ~InMassRange(z) /\ SeqMax(l, 1) > SeqMax(df1_intensity_list_dict[z_fin], 1)

\* Target k of charge z is matched in the spectrum.
Matched(spectrum, z, k) ==
    \E i \in DOMAIN spectrum.mz :
        Abs(DfList(z)[k] - z * spectrum.mz[i]) <= (ppm_ms1 * DfList(z)[k]) \div 1000000

\* The intensity of the lowest-index peak of the spectrum matching target k.
FirstMatchIntensity(spectrum, z, k) ==
    LET first == CHOOSE i \in DOMAIN spectrum.mz :
                    /\ Abs(DfList(z)[k] - z * spectrum.mz[i]) <= PpmDelta(ppm_ms1, DfList(z)[k])
                    /\ \A j \in 1..(i - 1) :
                          Abs(DfList(z)[k] - z * spectrum.mz[j]) > PpmDelta(ppm_ms1, DfList(z)[k])
    IN spectrum.intensities[first]

\* The MS1 trace of charge z is index-aligned with the spectra.
Ms1TraceAligned(z) ==
    LET n == Len(spectrums_ms1_list) IN
    /\ Len(rt_list_dict[z]) = n
    /\ Len(scan_num_list_dict[z]) = n
    /\ Len(df1_intensity_list_dict[z]) = n
    /\ flex_mode # "true" =>
          Len(df2_intensity_list_dict[z]) = n /\ Len(df3_intensity_list_dict[z]) = n
    /\ \A i \in 1..n :
          /\ rt_list_dict[z][i] = spectrums_ms1_list[i].retention_time
          /\ scan_num_list_dict[z][i] = spectrums_ms1_list[i].scan_number
          /\ \/ df1_intensity_list_dict[z][i] = 1
             \/ df1_intensity_list_dict[z][i] \in Range(spectrums_ms1_list[i].intensities)

\* The MS2 trace of fragment df is index-aligned: entry i of the three lists comes
\* from one processed spectrum, where a peak in the tolerance of df has the
\* recorded intensity.
Ms2TraceAligned(df) ==
    /\ Len(df_intensity_dict[df]) = Len(df_rt_dict[df])
    /\ Len(df_intensity_dict[df]) = Len(df_scan_num_dict[df])
    /\ \A i \in DOMAIN df_intensity_dict[df] :
          \E sp \in ProcessedMs2 :
             /\ sp.retention_time = df_rt_dict[df][i]
             /\ sp.scan_number = df_scan_num_dict[df][i]
             /\ \E j \in DOMAIN df_ms2_list :
                   /\ df_ms2_list[j] = df
                   /\ \E q \in MatchIdxArr(sp.mz, df, delta_mz_ms2_list[j]) :
                         sp.intensities[q] = df_intensity_dict[df][i]

\* C9: the lists of every MS1 trace have one entry per MS1 spectrum, entry i from
\* spectrum i; the three lists of every MS2 fragment trace have the same length,
\* entry i from one spectrum.
C9_TracesIndexAligned ==
    /\ DOMAIN rt_list_dict = DOMAIN df1_intensity_list_dict
    /\ DOMAIN scan_num_list_dict = DOMAIN df1_intensity_list_dict
    /\ \A z \in DOMAIN df1_intensity_list_dict : Ms1TraceAligned(z)
    /\ DOMAIN df_rt_dict = DOMAIN df_intensity_dict
    /\ DOMAIN df_scan_num_dict = DOMAIN df_intensity_dict
    /\ \A df \in DOMAIN df_intensity_dict : Ms2TraceAligned(df)

\* C9's case: a strict-mode MS1 trace over two spectra, one entry real and one the
\* sentinel.
C9_Witness ==
    /\ ms1_pc = "selected"
    /\ flex_mode = "false"
    /\ Len(spectrums_ms1_list) = 2
    /\ \E i, j \in DOMAIN df1_intensity_list_dict[z_fin] :
          df1_intensity_list_dict[z_fin][i] = 1 /\ df1_intensity_list_dict[z_fin][j] > 1

\* C10: in strict mode entry i of the df1, df2 and df3 traces holds the matched
\* intensities of spectrum i if all three targets are matched in it, and the
\* sentinel 1 three times otherwise; rt and scan number are recorded either way.
C10_StrictAllOrSentinel ==
    flex_mode # "true" =>
        \A z \in DOMAIN df1_intensity_list_dict :
            \A i \in DOMAIN spectrums_ms1_list :
                LET sp == spectrums_ms1_list[i] IN
                /\ i \in DOMAIN df1_intensity_list_dict[z]
                /\ i \in DOMAIN df2_intensity_list_dict[z]
                /\ i \in DOMAIN df3_intensity_list_dict[z]
                /\ i \in DOMAIN rt_list_dict[z] /\ i \in DOMAIN scan_num_list_dict[z]
                /\ rt_list_dict[z][i] = sp.retention_time
                /\ scan_num_list_dict[z][i] = sp.scan_number
                /\ IF Matched(sp, z, 1) /\ Matched(sp, z, 2) /\ Matched(sp, z, 3)
                   THEN /\ df1_intensity_list_dict[z][i] = FirstMatchIntensity(sp, z, 1)
                        /\ df2_intensity_list_dict[z][i] = FirstMatchIntensity(sp, z, 2)
                        /\ df3_intensity_list_dict[z][i] = FirstMatchIntensity(sp, z, 3)
                   ELSE /\ df1_intensity_list_dict[z][i] = 1
                        /\ df2_intensity_list_dict[z][i] = 1
                        /\ df3_intensity_list_dict[z][i] = 1

\* C10's case: a strict-mode search over a spectrum where df1 and df2 are matched
\* and df3 is not, and over one where all three are matched.
C10_Witness ==
    /\ flex_mode = "false"
    /\ \E z \in DOMAIN df1_intensity_list_dict :
          /\ \E i \in DOMAIN spectrums_ms1_list :
                LET sp == spectrums_ms1_list[i] IN
                Matched(sp, z, 1) /\ Matched(sp, z, 2) /\ ~Matched(sp, z, 3)
          /\ \E i \in DOMAIN spectrums_ms1_list :
                LET sp == spectrums_ms1_list[i] IN
                Matched(sp, z, 1) /\ Matched(sp, z, 2) /\ Matched(sp, z, 3)

\* C11: in flex mode entry i of the rt and scan-number lists is that of spectrum i
\* whatever is matched, entry i of the df1 trace is the matched peak's intensity
\* if df1 is matched in spectrum i and the sentinel 1 otherwise, whether or not
\* df2 and df3 are matched, and the df2 and df3 traces are empty.
C11_FlexRecordsDf1Only ==
    flex_mode = "true" =>
        \A z \in DOMAIN df1_intensity_list_dict :
            /\ Len(rt_list_dict[z]) = Len(spectrums_ms1_list)
            /\ Len(scan_num_list_dict[z]) = Len(spectrums_ms1_list)
            /\ Len(df1_intensity_list_dict[z]) = Len(spectrums_ms1_list)
            /\ df2_intensity_list_dict[z] = <<>>
            /\ df3_intensity_list_dict[z] = <<>>
            /\ \A i \in DOMAIN spectrums_ms1_list :
                  LET sp == spectrums_ms1_list[i] IN
                  /\ rt_list_dict[z][i] = sp.retention_time
                  /\ scan_num_list_dict[z][i] = sp.scan_number
                  /\ df1_intensity_list_dict[z][i] =
                        IF Matched(sp, z, 1) THEN FirstMatchIntensity(sp, z, 1) ELSE 1

\* C11's case: a flex-mode search of a charge over two spectra, df1 matched
\* without df2 and df3 in one and not matched in the other.
C11_Witness ==
    /\ flex_mode = "true"
    /\ \E z \in DOMAIN df1_intensity_list_dict :
          /\ \E i \in DOMAIN spectrums_ms1_list :
                LET sp == spectrums_ms1_list[i] IN
                /\ Matched(sp, z, 1) /\ ~Matched(sp, z, 2) /\ ~Matched(sp, z, 3)
                /\ df1_intensity_list_dict[z][i] > 1
          /\ \E i \in DOMAIN spectrums_ms1_list :
                /\ ~Matched(spectrums_ms1_list[i], z, 1)
                /\ df1_intensity_list_dict[z][i] = 1

\* More than one peak of the spectrum is in the tolerance of target k of charge z.
MultiMatched(spectrum, z, k) ==
    Cardinality(Ms1MatchIdxArr(spectrum.mz, DfList(z)[k], z)) > 1

\* The spectrum is recorded as matched: df1 in flex mode, all three targets in
\* strict mode.
RecordedAsMatched(spectrum, z) ==
    IF flex_mode = "true" THEN Matched(spectrum, z, 1)
    ELSE Matched(spectrum, z, 1) /\ Matched(spectrum, z, 2) /\ Matched(spectrum, z, 3)

ChargePosition(z) == CHOOSE i \in DOMAIN charge_list : charge_list[i] = z

\* max(df1_intensity_list) of an in-range charge that was searched.
MaxDf1(z) == SeqMax(df1_intensity_list_dict[z], 1)

\* C27: the selected charge has a strictly greater df1 maximum than every
\* in-range charge met before it in charge_list, and one at least as great as
\* every in-range charge met after it: of charges with equal maxima the first
\* in the iteration order is selected.
C27_FirstChargeWinsTies ==
    ms1_pc = "selected" =>
        \A z \in DOMAIN df1_intensity_list_dict :
            /\ ChargePosition(z) < ChargePosition(z_fin) => MaxDf1(z) < MaxDf1(z_fin)
            /\ ChargePosition(z) > ChargePosition(z_fin) => MaxDf1(z) <= MaxDf1(z_fin)

\* C27's case: charge_range "2,1" with real signal of equal maximum for both
\* charges; charge 2, met first, is selected.
C27_Witness ==
    /\ ms1_pc = "selected"
    /\ charge_list = <<2, 1>>
    /\ DOMAIN df1_intensity_list_dict = {1, 2}
    /\ MaxDf1(1) = MaxDf1(2)
    /\ MaxDf1(1) > 1
    /\ z_fin = 2

----------------------------------------------------------------------------
(* Properties of find_filter_peaks and check_peaks_distance *)

\* C2: the returned peak indices are strictly increasing and every two of them
\* have retention times at least delta apart.
C2_PeaksIncreasingAndSeparated ==
    peaks_pc = "returned" =>
        \A i, j \in DOMAIN peak_idx_list3 :
            i < j =>
               /\ peak_idx_list3[i] < peak_idx_list3[j]
               /\ Abs(pk_rt_list[peak_idx_list3[j]] - pk_rt_list[peak_idx_list3[i]]) >= pk_delta

\* C2 for the pipeline's delta = 0.2 alone.
C2_SeparatedAtPipelineDelta == pk_delta = CloseLiteral => C2_PeaksIncreasingAndSeparated

\* Sample p is a local maximum find_peaks reports: the middle of a run of equal
\* samples with a lower sample on each side.
IsDetectedMaximum(x, p) ==
    \E l \in 2..p, r \in p..(Len(x) - 1) :
        /\ \A j \in l..r : x[j] = x[p]
        /\ x[l - 1] < x[p] /\ x[r + 1] < x[p]
        /\ p = (l + r) \div 2

\* smoothed[p] / max(left_baseline, right_baseline) >= 2
RatioAtLeastTwo(x, p) ==
    /\ x[p] >= 2 * LeftBaseline(x, p)
    /\ x[p] >= 2 * RightBaseline(x, p)

\* smoothed[p] >= max(min_height, threshold * max(smoothed)), threshold in 1/1000
AtLeastMinIntensity(x, p) ==
    /\ x[p] >= pk_min_height
    /\ \A j \in DOMAIN x : 1000 * x[p] >= pk_threshold * x[j]

TwoClosePeaks ==
    /\ peaks_pc = "returned"
    /\ Len(peak_idx_list2) = 2
    /\ Abs(pk_rt_list[peak_idx_list2[2]] - pk_rt_list[peak_idx_list2[1]]) < pk_delta
    /\ Abs(pk_rt_list[peak_idx_list2[2]] - pk_rt_list[peak_idx_list2[1]]) < CloseLiteral

\* C20: of exactly two retained peaks closer than the separation threshold one
\* is returned: the later one if its smoothed intensity is at least the earlier
\* one's (also when they are equal), else the earlier one.
C20_TwoClosePeaksKeepOne ==
    TwoClosePeaks =>
        LET earlier == peak_idx_list2[1]
            later == peak_idx_list2[2]
        IN /\ earlier < later
           /\ peak_idx_list3 =
                 IF intensity_filt_arr[later] >= intensity_filt_arr[earlier]
                 THEN <<later>> ELSE <<earlier>>

\* C20's case: two close retained peaks of equal intensity, the later returned.
C20_Witness ==
    /\ TwoClosePeaks
    /\ intensity_filt_arr[peak_idx_list2[1]] = intensity_filt_arr[peak_idx_list2[2]]
    /\ peak_idx_list3 = <<peak_idx_list2[2]>>

\* Two close retained peaks, the earlier one higher and returned.
C20_EarlierHigherKept ==
    /\ TwoClosePeaks
    /\ intensity_filt_arr[peak_idx_list2[1]] > intensity_filt_arr[peak_idx_list2[2]]
    /\ peak_idx_list3 = <<peak_idx_list2[1]>>

\* The retention-time difference of the two retained peaks.
TwoPeaksRtDifference ==
    Abs(pk_rt_list[peak_idx_list2[2]] - pk_rt_list[peak_idx_list2[1]])

\* C21: two adjacent retained peaks are treated as close, and one of them is
\* dropped, exactly when their retention times differ by less than the argument
\* delta, whatever delta is.
C21_CloseMeansBelowDelta ==
    (peaks_pc = "returned" /\ Len(peak_idx_list2) = 2) =>
        (Len(peak_idx_list3) = 1 <=> TwoPeaksRtDifference < pk_delta)

\* The pair is treated as close exactly when the difference is below 0.2.
C21_CloseMeansBelowLiteral ==
    (peaks_pc = "returned" /\ Len(peak_idx_list2) = 2) =>
        (Len(peak_idx_list3) = 1 <=> TwoPeaksRtDifference < CloseLiteral)

\* C25: the returned baseline list has one entry per returned peak, entry i the
\* higher of the two baselines of returned peak i, also when the deduplication
\* pass drops peaks.
C25_BaselinesMatchReturnedPeaks ==
    peaks_pc = "returned" =>
        /\ Len(peak_baseline_list) = Len(peak_idx_list3)
        /\ \A i \in DOMAIN peak_idx_list3 :
              /\ peak_baseline_list[i] >= LeftBaseline(intensity_filt_arr, peak_idx_list3[i])
              /\ peak_baseline_list[i] >= RightBaseline(intensity_filt_arr, peak_idx_list3[i])
              /\ peak_baseline_list[i] \in
                    { LeftBaseline(intensity_filt_arr, peak_idx_list3[i]),
                      RightBaseline(intensity_filt_arr, peak_idx_list3[i]) }

\* The baseline list has one entry per peak that passed the retention filter,
\* before the deduplication pass.
C25_BaselinesMatchRetainedPeaks ==
    peaks_pc = "returned" =>
        /\ Len(peak_baseline_list) = Len(peak_idx_list2)
        /\ \A i \in DOMAIN peak_idx_list2 :
              /\ peak_baseline_list[i] >= LeftBaseline(intensity_filt_arr, peak_idx_list2[i])
              /\ peak_baseline_list[i] >= RightBaseline(intensity_filt_arr, peak_idx_list2[i])
              /\ peak_baseline_list[i] \in
                    { LeftBaseline(intensity_filt_arr, peak_idx_list2[i]),
                      RightBaseline(intensity_filt_arr, peak_idx_list2[i]) }

\* The greatest smoothed intensity over the peaks that passed the retention
\* filter.
MaxRetainedIntensity ==
    MaxOf({ intensity_filt_arr[p] : p \in Range(peak_idx_list2) })

\* C26: if a peak passes the retention filter, the deduplication pass returns a
\* non-empty sub-list of the retained peaks that holds a peak of the greatest
\* intensity among them.
C26_DeduplicationKeepsAMaximum ==
    (peaks_pc = "returned" /\ peak_idx_list2 # <<>>) =>
        /\ peak_idx_list3 # <<>>
        /\ Range(peak_idx_list3) \subseteq Range(peak_idx_list2)
        /\ \E p \in Range(peak_idx_list3) : intensity_filt_arr[p] = MaxRetainedIntensity

\* C26's case: three retained peaks, each close to the next, the first two tied
\* at the greatest intensity, and one peak returned.
C26_Witness ==
    /\ peaks_pc = "returned"
    /\ Len(peak_idx_list2) = 3
    /\ \A i \in 1..2 :
          Abs(pk_rt_list[peak_idx_list2[i + 1]] - pk_rt_list[peak_idx_list2[i]]) < CloseLiteral
    /\ intensity_filt_arr[peak_idx_list2[1]] = MaxRetainedIntensity
    /\ intensity_filt_arr[peak_idx_list2[2]] = MaxRetainedIntensity
    /\ intensity_filt_arr[peak_idx_list2[3]] < MaxRetainedIntensity
    /\ Len(peak_idx_list3) = 1

----------------------------------------------------------------------------
(* Properties of find_aligned_peaks and of the isomer rows *)

\* Every (fragment, peak position) pair of the MS2 peaks.
AllMs2Pairs ==
    UNION { { <<df, j>> : j \in DOMAIN df_peak_scan_num_ms2_dict[df] } :
            df \in DOMAIN df_peak_scan_num_ms2_dict }

\* The pairs whose scan number is at most 100 away from the MS1 scan number.
AlignedPairs(scan_num_ms1) ==
    { p \in AllMs2Pairs :
        LET d == scan_num_ms1 - df_peak_scan_num_ms2_dict[p[1]][p[2]] IN
        -100 <= d /\ d <= 100 }

PairIntensity(p) == df_peak_intensity_dict[p[1]][p[2]]

RECURSIVE TopSum(_, _)
\* The sum of the k largest intensities among the pairs S (all, if fewer).
TopSum(S, k) ==
    IF k = 0 \/ S = {} THEN 0
    ELSE LET top == CHOOSE p \in S : \A q \in S : PairIntensity(p) >= PairIntensity(q)
         IN PairIntensity(top) + TopSum(S \ {top}, k - 1)

SmallerOf(a, b) == IF a <= b THEN a ELSE b

\* The positions of the MS1 peaks the loop of find_aligned_peaks has gone through.
AlignedMs1Positions == 1..(ms1_peak_pos - 1)

\* C5: for every MS1 peak the aggregated intensity is the sum of the
\* min(matched_count, max_aligned_record_ms2) largest intensities among its
\* aligned pairs, and the recorded list of aligned pairs is not cut by the cap.
C5_AggregatedIsCappedTopSum ==
    \A i \in AlignedMs1Positions :
        LET pairs == AlignedPairs(df_peak_scan_num_ms1_list[i])
            peak == df_peak_idx_ms1_list[i]
        IN /\ aligned_peak_tot_intenisty_ms2_dict[peak] =
                 TopSum(pairs, SmallerOf(Cardinality(pairs), max_aligned_record_ms2))
           /\ Len(DictGet(aligned_peak_ms1_2_dict, peak)) = Cardinality(pairs)

\* C5's case: an MS1 peak with more aligned pairs than the cap, whose largest
\* intensities are not the first ones met.
C5_Witness ==
    \E i \in AlignedMs1Positions :
        LET pairs == AlignedPairs(df_peak_scan_num_ms1_list[i])
            peak == df_peak_idx_ms1_list[i]
        IN /\ Cardinality(pairs) = 6
           /\ max_aligned_record_ms2 = 3
           /\ aligned_peak_tot_intenisty_ms2_dict[peak] = 400 + 300 + 250
           /\ Len(aligned_peak_ms1_2_dict[peak]) = 6

\* C6: matched_count of every MS1 peak is the number of (fragment, MS2 peak) pairs
\* within the inclusive margin of 100 scans, each pair counted once.
C6_MatchedCountIsPairCount ==
    /\ \A i \in AlignedMs1Positions :
          Len(DictGet(aligned_peak_ms1_2_dict, df_peak_idx_ms1_list[i])) =
             Cardinality(AlignedPairs(df_peak_scan_num_ms1_list[i]))
    /\ \A i \in DOMAIN isomers_rows :
          isomers_rows[i].matched_counts =
             Cardinality(AlignedPairs(df_peak_scan_num_ms1_list[i]))

\* C6's case: an MS1 peak aligned with two peaks of one fragment, one of them
\* exactly 100 scans away, and with a peak of another fragment, while a peak 101
\* scans away is not counted.
C6_Witness ==
    /\ align_pc = "reported"
    /\ \E i \in DOMAIN isomers_rows :
          LET s1 == df_peak_scan_num_ms1_list[i]
              pairs == AlignedPairs(s1)
          IN /\ isomers_rows[i].matched_counts = Cardinality(pairs)
             /\ \E p, q, r \in pairs :
                   /\ p[1] = q[1] /\ p[2] # q[2] /\ r[1] # p[1]
                   /\ Abs(s1 - df_peak_scan_num_ms2_dict[p[1]][p[2]]) = 100
    /\ \E i \in DOMAIN isomers_rows :
          \E p \in AllMs2Pairs :
             /\ Abs(df_peak_scan_num_ms1_list[i] - df_peak_scan_num_ms2_dict[p[1]][p[2]]) = 101
             /\ isomers_rows[i].matched_counts < Cardinality(AllMs2Pairs)

\* C7: the match percent of a row is matched_count / len(df_ms2_list) * 100 with
\* the uncapped matched_count (kept as numerator and denominator), so it is above
\* 100 when matched_count is above the number of target fragments.
C7_MatchPercentUncapped ==
    \A i \in DOMAIN isomers_rows :
        LET count == Cardinality(AlignedPairs(df_peak_scan_num_ms1_list[i]))
            percent == isomers_rows[i].matched_percent
        IN /\ percent[1] = count * 100
           /\ percent[2] = n_df_ms2
           /\ count > n_df_ms2 => percent[1] > 100 * percent[2]

\* C7's case: five target fragments, six aligned events and a cap below six: 120 %.
C7_Witness ==
    /\ align_pc = "reported"
    /\ n_df_ms2 = 5
    /\ max_aligned_record_ms2 = 3
    /\ \E i \in DOMAIN isomers_rows :
          /\ isomers_rows[i].matched_counts = 6
          /\ isomers_rows[i].matched_percent = <<600, 5>>
          /\ isomers_rows[i].matched_percent[1] = 120 * isomers_rows[i].matched_percent[2]

\* No fragment has a detected MS2 peak.
NoMs2Peak == \A df \in DOMAIN df_peak_scan_num_ms2_dict : df_peak_scan_num_ms2_dict[df] = <<>>

\* C8: when no fragment has a detected MS2 peak, every MS1 peak gets matched_count
\* 0 and aggregated intensity 0, and its row a match percent of 0.
C8_NoMs2PeakGivesZero ==
    NoMs2Peak =>
        /\ \A i \in AlignedMs1Positions :
              /\ DictGet(aligned_peak_ms1_2_dict, df_peak_idx_ms1_list[i]) = <<>>
              /\ aligned_peak_tot_intenisty_ms2_dict[df_peak_idx_ms1_list[i]] = 0
        /\ align_pc = "reported" => Len(isomers_rows) = Len(df_peak_idx_ms1_list)
        /\ \A i \in DOMAIN isomers_rows :
              /\ isomers_rows[i].matched_counts = 0
              /\ isomers_rows[i].height_ms2 = 0
              /\ isomers_rows[i].matched_percent[1] = 0

\* C8's case: rows were written for two MS1 peaks or more while two fragments or
\* more have a trace and none has a peak.
C8_Witness ==
    /\ align_pc = "reported"
    /\ NoMs2Peak
    /\ Cardinality(DOMAIN df_peak_scan_num_ms2_dict) >= 2
    /\ Len(isomers_rows) >= 2

----------------------------------------------------------------------------
(* Properties of find_nearest_precursor_mz *)

\* find_nearest_precursor_mz has returned.
PrecReturned == prec_pc \in {"returned", "extracting"}

\* The distance of key number j of the index to df1 (times z).
KeyDelta(j) == PrecDelta(precMZ_keys[j], prec_df_num, prec_z)

\* C12: for a non-empty index find_nearest_precursor_mz returns one precursor
\* m/z; it is a key of the index, no key is nearer to df1, and every key met
\* before it in the iteration order of the index is strictly farther from df1.
C12_NearestKeyFirstOfTies ==
    (PrecReturned /\ precMZ_keys # <<>>) =>
        /\ Len(precursor_mz_list) = 1
        /\ \E j \in DOMAIN precMZ_keys :
              /\ precMZ_keys[j] = precursor_mz_list[1]
              /\ \A k \in DOMAIN precMZ_keys : KeyDelta(j) <= KeyDelta(k)
              /\ \A k \in 1..(j - 1) : KeyDelta(k) > KeyDelta(j)

\* C12's case: two keys are equally near to df1 and nearer than any other, the
\* greater one was inserted first, and it is the one returned.
C12_Witness ==
    /\ PrecReturned
    /\ \E j, k \in DOMAIN precMZ_keys :
          /\ j < k
          /\ precMZ_keys[j] > precMZ_keys[k]
          /\ KeyDelta(j) = KeyDelta(k)
          /\ \A m \in DOMAIN precMZ_keys : KeyDelta(j) <= KeyDelta(m)
          /\ precursor_mz_list = <<precMZ_keys[j]>>

\* C13: with an empty precursor index find_nearest_precursor_mz returns nothing
\* (its assertion fails), extract_info_ms2 is never entered, and no alignment is
\* made and no report row written.
C13_EmptyIndexFails ==
    precMZ_keys = <<>> =>
        /\ prec_pc \in {"idle", "loop", "assert_failed"}
        /\ precursor_mz_list = <<>>
        /\ ms2_pc = "idle"
        /\ spec_ms2_pos = 0
        /\ df_intensity_dict = EmptyDict
        /\ df_rt_dict = EmptyDict
        /\ df_scan_num_dict = EmptyDict
        /\ align_pc = "idle"
        /\ isomers_rows = <<>>

\* C13's case: the call on a file without MS2 spectra has failed its assertion.
C13_Witness ==
    /\ precMZ_keys = <<>>
    /\ spectrums_ms2_list = <<>>
    /\ prec_pc = "assert_failed"

----------------------------------------------------------------------------
(* Properties of the driver *)

\* C15: a fatal condition of one compound (no charge in the mass range, an empty
\* precursor index) does not end the driver: it stays in the loop over the
\* compounds or goes on to the roll-ups.
C15_FatalAbandonsOnlyCompound ==
    driver_pc \notin {"SystemExit", "AssertionError"}

\* The rows and files of the compounds analysed before a fatal condition are
\* kept, but the roll-ups of the dataset and the combined files are not written.
C15_NoRollupAfterFatal ==
    driver_pc \in {"SystemExit", "AssertionError"} =>
        /\ dataset_pos \notin dataset_rollups
        /\ ~combined_written

\* C28: every row of the combined subtype roll-up holds four values for each
\* dataset whose roll-ups are written, and the four values under the columns of
\* a dataset are those of the note in that dataset's Glycan_subtype.csv.
C28_SubtypeRowsAlignWithHeader ==
    \A note \in DOMAIN subtype_root_row_dict :
        /\ Len(subtype_root_row_dict[note]) = 4 * Cardinality(dataset_rollups)
        /\ \A d \in DOMAIN subtype_files :
               note \in DOMAIN subtype_files[d] =>
                   /\ Len(subtype_root_row_dict[note]) >= 4 * d
                   /\ SubSeq(subtype_root_row_dict[note], 4 * (d - 1) + 1, 4 * d)
                          = subtype_files[d][note]

\* The header of the combined subtype roll-up holds four columns for each
\* dataset loaded so far, in dataset order.
C28_HeaderHasFourColumnsPerDataset ==
    driver_pc \in {"combined", "done"} =>
        /\ Len(subtype_root_head) = 1 + 4 * Len(dataset_list)
        /\ \A d \in DOMAIN dataset_list :
               SubSeq(subtype_root_head, 4 * (d - 1) + 2, 4 * d + 1) = HeadColumns(d)

\* C29: the roll-ups of a dataset never fail on a division.
C29_RollupsNeverFail ==
    driver_pc # "ZeroDivisionError"

\* When the roll-ups of a dataset fail, the total of a height column is zero
\* and none of the three files of the dataset is written.
C29_FailsOnlyOnZeroTotal ==
    driver_pc = "ZeroDivisionError" =>
        /\ \/ SumField(isomers_row_list, "h_ms1", 1) = 0
           \/ SumField(isomers_row_list, "h_ms2", 1) = 0
        /\ dataset_pos \notin dataset_rollups
        /\ ~combined_written

----------------------------------------------------------------------------
(* Properties of Arguments.__init__ and of the masses *)

\* C16: with a polarity outside {positive, negative} or an adduct outside
\* {H, Na, K, NH4} the construction fails, and no mass is ever computed from
\* such a value.
C16_InvalidConfigurationRejected ==
    (arg_polarity \notin {"positive", "negative"} \/ arg_adduct \notin {"H", "Na", "K", "NH4"}) =>
        /\ args_pc \in {"init", "AssertionError"}
        /\ arg_df_list = <<>>

\* C16's case: the construction has failed on a valid polarity with an adduct
\* outside the set.
C16_Witness ==
    /\ args_pc = "AssertionError"
    /\ arg_polarity = "negative"
    /\ arg_adduct = "Li"

\* base = dot(composition, monomer masses) + water + addon_mass
BaseMass ==
    arg_cpd_list[1] * 16205282 + arg_cpd_list[2] * 20307937 + arg_cpd_list[3] * 14605791
    + arg_cpd_list[4] * 29109542 + arg_cpd_list[5] * 30709033 + 1801056 + arg_addon_mass

\* C17: z*df1 = base + s*adduct_mass*z with s = +1 for positive and -1 for
\* negative polarity, z*df2 - z*df1 = 1.0034 and z*df3 - z*df1 = 2.006 for every
\* charge, so that df1 < df2 < df3.
C17_MassesWithFlatIsotopeOffset ==
    args_pc = "computed" =>
        LET s == IF arg_polarity = "positive" THEN 1 ELSE -1 IN
        /\ arg_df_list[1] = BaseMass + s * adduct_tab[arg_adduct] * arg_z
        /\ arg_df_list[2] - arg_df_list[1] = 100340
        /\ arg_df_list[3] - arg_df_list[1] = 200600
        /\ arg_df_list[1] < arg_df_list[2] /\ arg_df_list[2] < arg_df_list[3]

\* C17's case: the masses of a composition of several monomers with an add-on
\* mass, negative polarity and charge 3.
C17_Witness ==
    /\ args_pc = "computed"
    /\ arg_polarity = "negative"
    /\ arg_z = 3
    /\ arg_addon_mass > 0
    /\ arg_cpd_list = <<5, 4, 0, 1, 0>>

----------------------------------------------------------------------------
(* Properties of the shared spectra and precursor index *)

\* C24: no step of a compound's analysis changes the MS1 spectrum list, the MS2
\* spectrum list or the precursor index (its keys, their order and their lists
\* of spectrum indices).
C24_SharedStructuresUnchanged ==
    [][ /\ spectrums_ms1_list' = spectrums_ms1_list
        /\ spectrums_ms2_list' = spectrums_ms2_list
        /\ precMZ_spectID_dict' = precMZ_spectID_dict
        /\ precMZ_keys' = precMZ_keys ]_vars

\* C24's case: the bucket of the nearest of several precursors was read from the
\* index and its spectra were aggregated.
C24_Witness ==
    /\ prec_pc = "extracting"
    /\ ms2_pc = "returned"
    /\ Len(precMZ_keys) >= 2
    /\ df_scan_num_dict # EmptyDict

----------------------------------------------------------------------------
(* Properties of the compound key *)

\* C30: splitting the key gives back the composition code and the addon mass
\* it was built from.
C30_KeyRoundTrips ==
    key_pc \in {"split", "parsed", "ValueError"} =>
        /\ split_cpd = key_cpd
        /\ split_addon_mass = key_addon_mass

\* The key of an addon mass without a minus sign round-trips, and its addon
\* mass is read as the number it spells.
C30_UnsignedKeyRoundTrips ==
    (key_pc \in {"split", "parsed", "ValueError"} /\ Head(key_addon_mass) # "-") =>
        /\ split_cpd = key_cpd
        /\ split_addon_mass = key_addon_mass
        /\ key_pc # "ValueError"
        /\ key_pc = "parsed" => addon_mass_value = ParseFloat(key_addon_mass)

\* The key of a negative addon mass splits into the code, the empty string and
\* the digits: the addon mass comes back empty and float() fails on it.
C30_NegativeAddonComesBackEmpty ==
    (key_pc \in {"split", "parsed", "ValueError"} /\ Head(key_addon_mass) = "-") =>
        /\ split_cpd = key_cpd
        /\ split_addon_mass = <<>>
        /\ key_pc # "parsed"

====
